---- MODULE Spec2Model ----
(***************************************************************************)
(* The sharded history engine of the workflow service: the shard context   *)
(* (service/history, shardContextImpl), the persistence rows it writes,    *)
(* and the workflow-execution context that drives the update transaction.  *)
(*                                                                         *)
(* One shard.  Several shard contexts may exist for it at a time: each     *)
(* acquireShard call builds a new one, and a superseded one lives on as    *)
(* long as requests hold it.  A handler of a shard context is a function   *)
(* from the context, the store and the faults the store injects to the     *)
(* context and the store it leaves behind; one action runs it in one step. *)
(* The persistence rows are the only state the contexts share.             *)
(*                                                                         *)
(* Spec      the shard contexts and their handlers.                        *)
(* SpecExec  the workflow-execution contexts of one started execution,     *)
(*           writing through the first shard context.                      *)
(***************************************************************************)
EXTENDS Integers, Sequences, FiniteSets, TLC

\* ------------------------------------------------------------------ bounds

MaxCtx == 2            \* shard contexts ever built for the shard
MaxRangeID == 2        \* renewals stop once the stored RangeID reaches it
RangeSizeBits == 1     \* config.RangeSizeBits (20 in NewConfig), kept small
MaxTasks == 2          \* tasks (transfer and timer) in one request
MaxTransferAckLevel == 1  \* ack levels passed to UpdateTransferAckLevel
MaxTimerAckLevel == 1  \* ack levels passed to UpdateTimerAckLevel, in seconds
MaxTimestamp == 0      \* visibility timestamps of timer tasks, in seconds
MaxEventID == 2        \* NextEventID of the execution row
MaxTransactionID == 2  \* transaction ids of history appends
MaxCalls == 5          \* handler calls in one behaviour
MaxExecCtx == 2        \* workflow-execution contexts of the one execution
MaxBuilderEventID == 4 \* NextEventID a mutable-state builder can reach
MaxDeleteTimerTaskID == 1   \* ids of the timer tasks a handler asks to delete
MaxAttempts == 2       \* attempts the retry policy allows before it expires
MaxLockers == 2        \* goroutines that take the shard context's mutex
MaxAppenders == 1      \* goroutines that append history without the mutex
MaxAppends == 2        \* history appends those goroutines send in one behaviour
MaxRequests == 3       \* requests the frontend handler serves in one behaviour

\* ------------------------------------------------------- program constants

ClosedRangeID == -1    \* closeShard: s.shardInfo.RangeID = -1
conditionalRetryCount == 5
FirstNextEventID == 2  \* NextEventID of a started execution
InitialRangeID == 0    \* Service.Start creates every shard row with RangeID 0

Ctx == 1..MaxCtx
ExecCtx == 1..MaxExecCtx
Hosts == {"h1", "h2"}

\* error kinds
Nil == "nil"
ShardOwnershipLost == "ShardOwnershipLostError"
ConditionFailed == "ConditionFailedError"
ServiceBusy == "ServiceBusyError"
AlreadyStarted == "WorkflowExecutionAlreadyStartedError"
EntityNotExists == "EntityNotExistsError"
Timeout == "TimeoutError"
ErrMaxAttemptsExceeded == "ErrMaxAttemptsExceeded"
ErrConflict == "ErrConflict"
SerializationError == "SerializationError"

\* What the store does to a request that passed its fence:
\*   none            it answers
\*   ServiceBusy     it rejects the request, nothing written
\*   TimeoutLost     the request is lost, the caller sees a timeout
\*   TimeoutApplied  the write lands, the answer is lost: the caller sees a timeout
Faults == {"none", "ServiceBusy", "TimeoutLost", "TimeoutApplied"}

\* The shard manager's errors other than ShardOwnershipLost are handled alike,
\* so one kind of them stands for all.
ShardFaults == {"none", "ServiceBusy", "TimeoutApplied"}

\* The host the shard controller that builds context c runs on.
HostOf(c) == IF c % 2 = 1 THEN "h1" ELSE "h2"

Shl(r, b) == r * (2 ^ b)

SetMax(S) == CHOOSE x \in S : \A y \in S : y <= x

\* The element of a one-element set; {F(x) : x \in {e}} is F of the value of e.
The(S) == CHOOSE x \in S : TRUE

MaxOr(S, none) == IF S = {} THEN none ELSE SetMax(S)

VARIABLES
  db,        \* the store: shard row, execution row, highest task id, history batch
  ctx,       \* ctx[c]: the shardContextImpl built by the c-th acquireShard
  closeCh,   \* what the contexts have sent on the controller's close channel
  issued,    \* issued[id]: how many times the sequencers have handed out id
  hist,      \* hist[c]: what context c has seen and done so far
  ncalls,    \* handler calls made so far
  wctx,      \* wctx[e]: the workflowExecutionContext e of the one execution
  mu,        \* the goroutine that holds the shard context's mutex, 0 when it is free
  pc,        \* pc[t]: where goroutine t stands in its handler, and its local
  sc,        \* the fields of the shard context the goroutines share
  shardRow,  \* the RangeID of the persisted shard row the goroutines write to
  appended,  \* the history appends the goroutines have sent
  counters,  \* counters[scope][name]: the frontend's metrics counters
  returned,  \* what WorkflowHandler.error was last given and what it returned
  svc        \* the frontend handler's startWG and clients; whether base.Stop has run

\* The variables of the shard context whose handlers run one at a time, of the
\* shard context seen statement by statement, and of the frontend handler.
shardVars == <<db, ctx, closeCh, issued, hist, ncalls, wctx>>
lockVars == <<mu, pc, sc, shardRow, appended>>
frontendVars == <<counters, returned, svc>>

vars == <<shardVars, lockVars, frontendVars>>

\* A part of the service that takes no step in a behaviour.
Unused == <<>>

IdleLock ==
  /\ mu = 0
  /\ pc = Unused
  /\ sc = Unused
  /\ shardRow = 0
  /\ appended = {}

IdleFrontend ==
  /\ counters = Unused
  /\ returned = Unused
  /\ svc = Unused

MaxTaskID == Shl(MaxRangeID + 1, RangeSizeBits)
TaskIDs == 0..MaxTaskID

\* ------------------------------------------------- the store (persistence)

\* What the store answers when it did not write.
Rejected(d, err) == [db |-> d, err |-> err, applied |-> FALSE]

\* What the store answers when it wrote: a lost answer reads as a timeout.
Written(d, fault) ==
  [db |-> d, err |-> IF fault = "TimeoutApplied" THEN Timeout ELSE Nil, applied |-> TRUE]

\* ShardManager.UpdateShard: a compare-and-set of the shard row on its RangeID.
\* A request whose PreviousRangeID is not the row's fails with ShardOwnershipLost.
ShardManagerUpdateShard(d, shardInfo, previousRangeID, fault) ==
  IF d.shard.RangeID # previousRangeID THEN Rejected(d, ShardOwnershipLost)
  ELSE IF fault = "ServiceBusy" THEN Rejected(d, ServiceBusy)
  ELSE IF fault = "TimeoutLost" THEN Rejected(d, Timeout)
  ELSE Written([d EXCEPT !.shard = shardInfo], fault)

\* ShardManager.GetShard
ShardManagerGetShard(d, fault) ==
  IF fault = "none" THEN [shardInfo |-> d.shard, err |-> Nil]
  ELSE [shardInfo |-> d.shard, err |-> IF fault = "ServiceBusy" THEN ServiceBusy ELSE Timeout]

TaskIDsOf(request) ==
  {request.TransferTasks[i] : i \in DOMAIN request.TransferTasks}
    \cup {request.ContinueAsNewTransferTasks[i] : i \in DOMAIN request.ContinueAsNewTransferTasks}
    \cup {request.TimerTasks[i].id : i \in DOMAIN request.TimerTasks}

\* The rows a committed Create/Update writes: the execution row and the tasks.
CommitExecution(d, request) ==
  [d EXCEPT !.exec = [exists |-> TRUE, NextEventID |-> request.NextEventID],
            !.maxTaskID = MaxOr(TaskIDsOf(request) \cup {@}, @)]

\* ExecutionManager.CreateWorkflowExecution(withRangeID)
ExecutionManagerCreateWorkflowExecution(d, request, fault) ==
  IF d.shard.RangeID # request.RangeID THEN Rejected(d, ShardOwnershipLost)
  ELSE IF fault = "ServiceBusy" THEN Rejected(d, ServiceBusy)
  ELSE IF fault = "TimeoutLost" THEN Rejected(d, Timeout)
  ELSE IF d.exec.exists THEN Rejected(d, AlreadyStarted)
  ELSE Written(CommitExecution(d, request), fault)

\* ExecutionManager.UpdateWorkflowExecution(withRangeID, withCondition)
ExecutionManagerUpdateWorkflowExecution(d, request, fault) ==
  IF d.shard.RangeID # request.RangeID THEN Rejected(d, ShardOwnershipLost)
  ELSE IF fault = "ServiceBusy" THEN Rejected(d, ServiceBusy)
  ELSE IF fault = "TimeoutLost" THEN Rejected(d, Timeout)
  ELSE IF ~d.exec.exists THEN Rejected(d, EntityNotExists)
  ELSE IF d.exec.NextEventID # request.Condition THEN Rejected(d, ConditionFailed)
  ELSE Written(CommitExecution(d, request), fault)

\* The runs of the one workflow: the run the execution row belongs to, and the
\* run a continue-as-new starts. A history batch is keyed by run and FirstEventID.
CurrentRun == "run"
NewRun == "newRun"

\* HistoryManager.AppendHistoryEvents(withRangeID, withTransactionID, withOverwrite).
\* staleErr is the error kind the store gives a request with a stale RangeID.
HistoryManagerAppendHistoryEvents(d, request, fault, staleErr) ==
  IF d.shard.RangeID # request.RangeID THEN Rejected(d, staleErr)
  ELSE IF fault = "ServiceBusy" THEN Rejected(d, ServiceBusy)
  ELSE IF fault = "TimeoutLost" THEN Rejected(d, Timeout)
  ELSE IF request.Execution = NewRun
    THEN IF d.newRunHistory.exists /\ ~request.Overwrite
           THEN Rejected(d, ConditionFailed)
           ELSE Written([d EXCEPT !.newRunHistory =
                           [exists |-> TRUE, TransactionID |-> request.TransactionID]], fault)
  ELSE IF d.history[request.FirstEventID].exists /\ ~request.Overwrite
    THEN Rejected(d, ConditionFailed)
  ELSE Written([d EXCEPT !.history[request.FirstEventID] =
                  [exists |-> TRUE, TransactionID |-> request.TransactionID]], fault)

\* ExecutionManager.GetWorkflowExecution
ExecutionManagerGetWorkflowExecution(d, fault) ==
  IF fault # "none" THEN [state |-> d.exec, err |-> IF fault = "ServiceBusy" THEN ServiceBusy ELSE Timeout]
  ELSE IF ~d.exec.exists THEN [state |-> d.exec, err |-> EntityNotExists]
  ELSE [state |-> d.exec, err |-> Nil]

\* ------------------------------------------------------ the shard context
\* A handler is computed on a record m: the context s it runs on, the store db,
\* the close channel ch, the store calls it has made (calls), the ids its
\* sequencer has handed out (assigned) and the error of its last step (err).

StoreCall(api, stamp, d, r) ==
  [api |-> api, stamp |-> stamp, rowRangeID |-> d.shard.RangeID,
   err |-> r.err, applied |-> r.applied, changed |-> r.db # d]

\* A call to the history manager, with what the request asked for.
HistoryCall(request, d, r) ==
  [api |-> "AppendHistoryEvents", stamp |-> request.RangeID,
   rowRangeID |-> d.shard.RangeID, err |-> r.err, applied |-> r.applied,
   changed |-> r.db # d, FirstEventID |-> request.FirstEventID,
   TransactionID |-> request.TransactionID, Overwrite |-> request.Overwrite,
   Execution |-> request.Execution]

copyShardInfo(shardInfo) ==
  [RangeID |-> shardInfo.RangeID, Owner |-> shardInfo.Owner,
   StolenSinceRenew |-> shardInfo.StolenSinceRenew,
   TransferAckLevel |-> shardInfo.TransferAckLevel,
   TimerAckLevel |-> shardInfo.TimerAckLevel]

getRangeID(m) == m.s.shardInfo.RangeID

\* closeShard that leaves the RangeID as it is.
closeShard_NoSentinel(m) ==
  IF m.s.isClosed THEN m
  ELSE [m EXCEPT !.s.isClosed = TRUE, !.ch = Append(@, m.c)]

closeShard(m) ==
  IF m.s.isClosed THEN m
  ELSE [m EXCEPT !.s.isClosed = TRUE,
                 !.s.shardInfo.RangeID = ClosedRangeID,
                 !.s.rangeID = ClosedRangeID,
                 !.ch = Append(@, m.c)]

\* renewRangeLocked that skips a range.
renewRangeLocked_SkipsRange(m, isStealing, fault) ==
  LET updatedShardInfo ==
        [copyShardInfo(m.s.shardInfo) EXCEPT
           !.RangeID = @ + 2,
           !.StolenSinceRenew = IF isStealing THEN @ + 1 ELSE @]
      r == ShardManagerUpdateShard(m.db, updatedShardInfo, m.s.shardInfo.RangeID, fault)
      m1 == [m EXCEPT !.db = r.db, !.err = r.err,
                      !.calls = Append(@, StoreCall("UpdateShard", m.s.shardInfo.RangeID, m.db, r))]
  IN IF r.err # Nil
       THEN IF r.err = ShardOwnershipLost THEN closeShard(m1) ELSE m1
       ELSE [m1 EXCEPT
               !.s.transferSequenceNumber = Shl(updatedShardInfo.RangeID, RangeSizeBits),
               !.s.maxTransferSequenceNumber = Shl(updatedShardInfo.RangeID + 1, RangeSizeBits),
               !.s.transferMaxReadLevel = Shl(updatedShardInfo.RangeID, RangeSizeBits) - 1,
               !.s.rangeID = updatedShardInfo.RangeID,
               !.s.shardInfo = updatedShardInfo]

\* renewRangeLocked that leaves transferMaxReadLevel where it was.
renewRangeLocked_StaleReadLevel(m, isStealing, fault) ==
  LET updatedShardInfo ==
        [copyShardInfo(m.s.shardInfo) EXCEPT
           !.RangeID = @ + 1,
           !.StolenSinceRenew = IF isStealing THEN @ + 1 ELSE @]
      r == ShardManagerUpdateShard(m.db, updatedShardInfo, m.s.shardInfo.RangeID, fault)
      m1 == [m EXCEPT !.db = r.db, !.err = r.err,
                      !.calls = Append(@, StoreCall("UpdateShard", m.s.shardInfo.RangeID, m.db, r))]
  IN IF r.err # Nil
       THEN IF r.err = ShardOwnershipLost THEN closeShard(m1) ELSE m1
       ELSE [m1 EXCEPT
               !.s.transferSequenceNumber = Shl(updatedShardInfo.RangeID, RangeSizeBits),
               !.s.maxTransferSequenceNumber = Shl(updatedShardInfo.RangeID + 1, RangeSizeBits),
               !.s.rangeID = updatedShardInfo.RangeID,
               !.s.shardInfo = updatedShardInfo]

\* renewRangeLocked that starts the sequencer at the range it had, not the new one.
renewRangeLocked_OldSequence(m, isStealing, fault) ==
  LET updatedShardInfo ==
        [copyShardInfo(m.s.shardInfo) EXCEPT
           !.RangeID = @ + 1,
           !.StolenSinceRenew = IF isStealing THEN @ + 1 ELSE @]
      r == ShardManagerUpdateShard(m.db, updatedShardInfo, m.s.shardInfo.RangeID, fault)
      m1 == [m EXCEPT !.db = r.db, !.err = r.err,
                      !.calls = Append(@, StoreCall("UpdateShard", m.s.shardInfo.RangeID, m.db, r))]
  IN IF r.err # Nil
       THEN IF r.err = ShardOwnershipLost THEN closeShard(m1) ELSE m1
       ELSE [m1 EXCEPT
               !.s.transferSequenceNumber = Shl(m.s.shardInfo.RangeID, RangeSizeBits),
               !.s.maxTransferSequenceNumber = Shl(updatedShardInfo.RangeID + 1, RangeSizeBits),
               !.s.transferMaxReadLevel = Shl(m.s.shardInfo.RangeID, RangeSizeBits) - 1,
               !.s.rangeID = updatedShardInfo.RangeID,
               !.s.shardInfo = updatedShardInfo]

\* renewRangeLocked that conditions the shard row's update on the RangeID it has
\* just read from the row, not on the RangeID the context holds.
renewRangeLocked_ReadBeforeWrite(m, isStealing, fault) ==
  LET updatedShardInfo ==
        [copyShardInfo(m.s.shardInfo) EXCEPT
           !.RangeID = m.db.shard.RangeID + 1,
           !.StolenSinceRenew = IF isStealing THEN @ + 1 ELSE @]
      r == ShardManagerUpdateShard(m.db, updatedShardInfo, m.db.shard.RangeID, fault)
      m1 == [m EXCEPT !.db = r.db, !.err = r.err,
                      !.calls = Append(@, StoreCall("UpdateShard", m.s.shardInfo.RangeID, m.db, r))]
  IN IF r.err # Nil
       THEN IF r.err = ShardOwnershipLost THEN closeShard(m1) ELSE m1
       ELSE [m1 EXCEPT
               !.s.transferSequenceNumber = Shl(updatedShardInfo.RangeID, RangeSizeBits),
               !.s.maxTransferSequenceNumber = Shl(updatedShardInfo.RangeID + 1, RangeSizeBits),
               !.s.transferMaxReadLevel = Shl(updatedShardInfo.RangeID, RangeSizeBits) - 1,
               !.s.rangeID = updatedShardInfo.RangeID,
               !.s.shardInfo = updatedShardInfo]

\* renewRangeLocked that moves the sequencer to the new range before it has the
\* shard manager's answer.
renewRangeLocked_AssignsFirst(m, isStealing, fault) ==
  LET updatedShardInfo ==
        [copyShardInfo(m.s.shardInfo) EXCEPT
           !.RangeID = @ + 1,
           !.StolenSinceRenew = IF isStealing THEN @ + 1 ELSE @]
      r == ShardManagerUpdateShard(m.db, updatedShardInfo, m.s.shardInfo.RangeID, fault)
      m1 == [m EXCEPT !.db = r.db, !.err = r.err,
                      !.calls = Append(@, StoreCall("UpdateShard", m.s.shardInfo.RangeID, m.db, r)),
                      !.s.transferSequenceNumber = Shl(updatedShardInfo.RangeID, RangeSizeBits),
                      !.s.maxTransferSequenceNumber = Shl(updatedShardInfo.RangeID + 1, RangeSizeBits),
                      !.s.transferMaxReadLevel = Shl(updatedShardInfo.RangeID, RangeSizeBits) - 1]
  IN IF r.err # Nil
       THEN IF r.err = ShardOwnershipLost THEN closeShard(m1) ELSE m1
       ELSE [m1 EXCEPT
               !.s.rangeID = updatedShardInfo.RangeID,
               !.s.shardInfo = updatedShardInfo]

renewRangeLocked(m, isStealing, fault) ==
  LET updatedShardInfo ==
        [copyShardInfo(m.s.shardInfo) EXCEPT
           !.RangeID = @ + 1,
           !.StolenSinceRenew = IF isStealing THEN @ + 1 ELSE @]
      r == ShardManagerUpdateShard(m.db, updatedShardInfo, m.s.shardInfo.RangeID, fault)
      m1 == [m EXCEPT !.db = r.db, !.err = r.err,
                      !.calls = Append(@, StoreCall("UpdateShard", m.s.shardInfo.RangeID, m.db, r))]
  IN IF r.err # Nil
       THEN IF r.err = ShardOwnershipLost THEN closeShard(m1) ELSE m1
       ELSE [m1 EXCEPT
               !.s.transferSequenceNumber = Shl(updatedShardInfo.RangeID, RangeSizeBits),
               !.s.maxTransferSequenceNumber = Shl(updatedShardInfo.RangeID + 1, RangeSizeBits),
               !.s.transferMaxReadLevel = Shl(updatedShardInfo.RangeID, RangeSizeBits) - 1,
               !.s.rangeID = updatedShardInfo.RangeID,
               !.s.shardInfo = updatedShardInfo]

\* updateRangeIfNeededLocked that renews only once the counter is past the end of
\* the range.
updateRangeIfNeededLocked_LateRenewal(m, fault) ==
  IF m.s.transferSequenceNumber <= m.s.maxTransferSequenceNumber
    THEN [m EXCEPT !.err = Nil]
    ELSE renewRangeLocked(m, FALSE, fault)

updateRangeIfNeededLocked(m, fault) ==
  IF m.s.transferSequenceNumber < m.s.maxTransferSequenceNumber
    THEN [m EXCEPT !.err = Nil]
    ELSE renewRangeLocked(m, FALSE, fault)

\* getNextTransferTaskIDLocked that never checks for the end of the range.
getNextTransferTaskIDLocked_NoRangeCheck(m, fault) ==
  [m EXCEPT
     !.err = Nil,
     !.assigned = Append(@, [id |-> m.s.transferSequenceNumber,
                             RangeID |-> m.s.shardInfo.RangeID]),
     !.s.transferSequenceNumber = @ + 1]

\* The id handed out is the last entry of assigned; on an error none is.
getNextTransferTaskIDLocked(m, fault) ==
  The({IF m1.err # Nil THEN m1
       ELSE [m1 EXCEPT
               !.assigned = Append(@, [id |-> m1.s.transferSequenceNumber,
                                       RangeID |-> m1.s.shardInfo.RangeID]),
               !.s.transferSequenceNumber = @ + 1] :
       m1 \in {updateRangeIfNeededLocked(m, fault)}})

updateMaxReadLevelLocked(m, rl) ==
  IF rl > m.s.transferMaxReadLevel THEN [m EXCEPT !.s.transferMaxReadLevel = rl] ELSE m

\* updateShardInfoLocked that conditions the update on the row's own RangeID.
updateShardInfoLocked_Unconditioned(m, fault) ==
  LET updatedShardInfo == copyShardInfo(m.s.shardInfo)
      r == ShardManagerUpdateShard(m.db, updatedShardInfo, m.db.shard.RangeID, fault)
      m1 == [m EXCEPT !.db = r.db, !.err = r.err,
                      !.calls = Append(@, StoreCall("UpdateShard", m.s.shardInfo.RangeID, m.db, r))]
  IN IF r.err = ShardOwnershipLost THEN closeShard(m1) ELSE m1

updateShardInfoLocked(m, fault) ==
  LET updatedShardInfo == copyShardInfo(m.s.shardInfo)
      r == ShardManagerUpdateShard(m.db, updatedShardInfo, m.s.shardInfo.RangeID, fault)
      m1 == [m EXCEPT !.db = r.db, !.err = r.err,
                      !.calls = Append(@, StoreCall("UpdateShard", m.s.shardInfo.RangeID, m.db, r))]
  IN IF r.err = ShardOwnershipLost THEN closeShard(m1) ELSE m1

GetNextTransferTaskID(m, fault) == getNextTransferTaskIDLocked(m, fault)

UpdateTransferAckLevel(m, ackLevel, fault) ==
  updateShardInfoLocked([m EXCEPT !.s.shardInfo.TransferAckLevel = ackLevel,
                                  !.s.shardInfo.StolenSinceRenew = 0], fault)

UpdateTimerAckLevel(m, ackLevel, fault) ==
  updateShardInfoLocked([m EXCEPT !.s.shardInfo.TimerAckLevel = ackLevel,
                                  !.s.shardInfo.StolenSinceRenew = 0], fault)

\* Ids for request.TransferTasks / request.ContinueAsNew.TransferTasks, in list
\* order from task i on; m.rl is the handler's local transferMaxReadLevel.
RECURSIVE AssignTransferTaskIDs(_, _, _, _)
AssignTransferTaskIDs(m, field, i, fault) ==
  IF i > Len(m.req[field]) THEN [m EXCEPT !.err = Nil]
  ELSE The({IF m1.err # Nil THEN m1
            ELSE AssignTransferTaskIDs(
                   [m1 EXCEPT !.req[field][i] = m1.assigned[Len(m1.assigned)].id,
                              !.rl = m1.assigned[Len(m1.assigned)].id],
                   field, i + 1, fault) :
            m1 \in {getNextTransferTaskIDLocked(m, fault)}})

RECURSIVE allocateTimerIDsLocked(_, _, _)
allocateTimerIDsLocked(m, i, fault) ==
  IF i > Len(m.req.TimerTasks) THEN [m EXCEPT !.err = Nil]
  ELSE LET ts == m.req.TimerTasks[i].ts
           m0 == IF ts < m.s.shardInfo.TimerAckLevel
                   THEN [m EXCEPT !.req.TimerTasks[i].ts = m.s.shardInfo.TimerAckLevel + 1]
                   ELSE m
       IN The({IF m1.err # Nil THEN m1
               ELSE allocateTimerIDsLocked(
                      [m1 EXCEPT !.req.TimerTasks[i].id = m1.assigned[Len(m1.assigned)].id],
                      i + 1, fault) :
               m1 \in {getNextTransferTaskIDLocked(m0, fault)}})

\* Create_Loop that renews the range after ServiceBusy as after an error of
\* unknown kind.
CreateLoop_RenewOnBusy(m, attempt, xfault, rfault) ==
  LET currentRangeID == getRangeID(m)
      request == [m.req EXCEPT !.RangeID = currentRangeID]
      r == ExecutionManagerCreateWorkflowExecution(m.db, request, xfault)
      m1 == [m EXCEPT !.req = request, !.db = r.db, !.err = r.err,
                      !.calls = Append(@, StoreCall("CreateWorkflowExecution", currentRangeID, m.db, r))]
  IN IF r.err = Nil \/ r.err = AlreadyStarted THEN m1
     ELSE IF r.err = ShardOwnershipLost THEN closeShard(m1)
     ELSE LET m2 == renewRangeLocked(m1, FALSE, rfault)
          IN [(IF m2.err # Nil THEN closeShard(m2) ELSE m2) EXCEPT !.err = r.err]

\* Create_Loop that takes the retry branch after every ShardOwnershipLost.
RECURSIVE CreateLoop_RetryAlways(_, _, _, _)
CreateLoop_RetryAlways(m, attempt, xfault, rfault) ==
  IF attempt >= conditionalRetryCount THEN [m EXCEPT !.err = ErrMaxAttemptsExceeded]
  ELSE
    LET currentRangeID == getRangeID(m)
        request == [m.req EXCEPT !.RangeID = currentRangeID]
        r == ExecutionManagerCreateWorkflowExecution(m.db, request, xfault)
        m1 == [m EXCEPT !.req = request, !.db = r.db, !.err = r.err,
                        !.calls = Append(@, StoreCall("CreateWorkflowExecution", currentRangeID, m.db, r))]
    IN IF r.err = Nil \/ r.err \in {AlreadyStarted, ServiceBusy} THEN m1
       ELSE IF r.err = ShardOwnershipLost
         THEN CreateLoop_RetryAlways(m1, attempt + 1, xfault, rfault)
       ELSE LET m2 == renewRangeLocked(m1, FALSE, rfault)
            IN [(IF m2.err # Nil THEN closeShard(m2) ELSE m2) EXCEPT !.err = r.err]

\* Create_Loop: the store call and the classification of its error.
RECURSIVE CreateLoop(_, _, _, _)
CreateLoop(m, attempt, xfault, rfault) ==
  IF attempt >= conditionalRetryCount THEN [m EXCEPT !.err = ErrMaxAttemptsExceeded]
  ELSE
    LET currentRangeID == getRangeID(m)
        request == [m.req EXCEPT !.RangeID = currentRangeID]
        r == ExecutionManagerCreateWorkflowExecution(m.db, request, xfault)
        m1 == [m EXCEPT !.req = request, !.db = r.db, !.err = r.err,
                        !.calls = Append(@, StoreCall("CreateWorkflowExecution", currentRangeID, m.db, r))]
    IN IF r.err = Nil \/ r.err \in {AlreadyStarted, ServiceBusy} THEN m1
       ELSE IF r.err = ShardOwnershipLost
         THEN IF currentRangeID # getRangeID(m1)
                THEN CreateLoop(m1, attempt + 1, xfault, rfault)
                ELSE closeShard(m1)
       ELSE LET m2 == renewRangeLocked(m1, FALSE, rfault)
            IN [(IF m2.err # Nil THEN closeShard(m2) ELSE m2) EXCEPT !.err = r.err]

CreateWorkflowExecution(m, request, fault, xfault, rfault) ==
  The({IF m1.err # Nil THEN m1
       ELSE The({updateMaxReadLevelLocked(CreateLoop(m2, 0, xfault, rfault), m1.rl) :
                 m2 \in {allocateTimerIDsLocked(m1, 1, fault)}}) :
       m1 \in {AssignTransferTaskIDs([m EXCEPT !.req = request, !.rl = 0],
                                     "TransferTasks", 1, fault)}})

\* Update_Loop that tries again after every ShardOwnershipLost, whether or not the
\* context's RangeID has changed since the attempt.
RECURSIVE UpdateLoop_RetryAlways(_, _, _, _)
UpdateLoop_RetryAlways(m, attempt, xfault, rfault) ==
  IF attempt >= conditionalRetryCount THEN [m EXCEPT !.err = ErrMaxAttemptsExceeded]
  ELSE
    LET currentRangeID == getRangeID(m)
        request == [m.req EXCEPT !.RangeID = currentRangeID]
        r == ExecutionManagerUpdateWorkflowExecution(m.db, request, xfault)
        m1 == [m EXCEPT !.req = request, !.db = r.db, !.err = r.err,
                        !.calls = Append(@, StoreCall("UpdateWorkflowExecution", currentRangeID, m.db, r))]
    IN IF r.err = Nil \/ r.err \in {ConditionFailed, ServiceBusy} THEN m1
       ELSE IF r.err = ShardOwnershipLost
         THEN UpdateLoop_RetryAlways(m1, attempt + 1, xfault, rfault)
       ELSE LET m2 == renewRangeLocked(m1, FALSE, rfault)
            IN [(IF m2.err # Nil THEN closeShard(m2) ELSE m2) EXCEPT !.err = r.err]

\* Update_Loop that leaves the shard loaded when the uncertain-write renewal fails
\* with anything but ShardOwnershipLost.
RECURSIVE UpdateLoop_KeepsShardOnRenewalError(_, _, _, _)
UpdateLoop_KeepsShardOnRenewalError(m, attempt, xfault, rfault) ==
  IF attempt >= conditionalRetryCount THEN [m EXCEPT !.err = ErrMaxAttemptsExceeded]
  ELSE
    LET currentRangeID == getRangeID(m)
        request == [m.req EXCEPT !.RangeID = currentRangeID]
        r == ExecutionManagerUpdateWorkflowExecution(m.db, request, xfault)
        m1 == [m EXCEPT !.req = request, !.db = r.db, !.err = r.err,
                        !.calls = Append(@, StoreCall("UpdateWorkflowExecution", currentRangeID, m.db, r))]
    IN IF r.err = Nil \/ r.err \in {ConditionFailed, ServiceBusy} THEN m1
       ELSE IF r.err = ShardOwnershipLost
         THEN IF currentRangeID # getRangeID(m1)
                THEN UpdateLoop_KeepsShardOnRenewalError(m1, attempt + 1, xfault, rfault)
                ELSE closeShard(m1)
       ELSE [renewRangeLocked(m1, FALSE, rfault) EXCEPT !.err = r.err]

\* Update_Loop that handles an error of unknown kind like the classified ones.
RECURSIVE UpdateLoop_NoRenewal(_, _, _, _)
UpdateLoop_NoRenewal(m, attempt, xfault, rfault) ==
  IF attempt >= conditionalRetryCount THEN [m EXCEPT !.err = ErrMaxAttemptsExceeded]
  ELSE
    LET currentRangeID == getRangeID(m)
        request == [m.req EXCEPT !.RangeID = currentRangeID]
        r == ExecutionManagerUpdateWorkflowExecution(m.db, request, xfault)
        m1 == [m EXCEPT !.req = request, !.db = r.db, !.err = r.err,
                        !.calls = Append(@, StoreCall("UpdateWorkflowExecution", currentRangeID, m.db, r))]
    IN IF r.err # ShardOwnershipLost THEN m1
       ELSE IF currentRangeID # getRangeID(m1)
         THEN UpdateLoop_NoRenewal(m1, attempt + 1, xfault, rfault)
         ELSE closeShard(m1)

\* Update_Loop
RECURSIVE UpdateLoop(_, _, _, _)
UpdateLoop(m, attempt, xfault, rfault) ==
  IF attempt >= conditionalRetryCount THEN [m EXCEPT !.err = ErrMaxAttemptsExceeded]
  ELSE
    LET currentRangeID == getRangeID(m)
        request == [m.req EXCEPT !.RangeID = currentRangeID]
        r == ExecutionManagerUpdateWorkflowExecution(m.db, request, xfault)
        m1 == [m EXCEPT !.req = request, !.db = r.db, !.err = r.err,
                        !.calls = Append(@, StoreCall("UpdateWorkflowExecution", currentRangeID, m.db, r))]
    IN IF r.err = Nil \/ r.err \in {ConditionFailed, ServiceBusy} THEN m1
       ELSE IF r.err = ShardOwnershipLost
         THEN IF currentRangeID # getRangeID(m1)
                THEN UpdateLoop(m1, attempt + 1, xfault, rfault)
                ELSE closeShard(m1)
       ELSE LET m2 == renewRangeLocked(m1, FALSE, rfault)
            IN [(IF m2.err # Nil THEN closeShard(m2) ELSE m2) EXCEPT !.err = r.err]

UpdateWorkflowExecution(m, request, fault, xfault, rfault) ==
  The({IF m1.err # Nil THEN m1
       ELSE The({IF m2.err # Nil THEN m2
                 ELSE The({updateMaxReadLevelLocked(UpdateLoop(m3, 0, xfault, rfault), m2.rl) :
                           m3 \in {allocateTimerIDsLocked(m2, 1, fault)}}) :
                 m2 \in {AssignTransferTaskIDs(m1, "ContinueAsNewTransferTasks", 1, fault)}}) :
       m1 \in {AssignTransferTaskIDs([m EXCEPT !.req = request, !.rl = 0],
                                     "TransferTasks", 1, fault)}})

\* AppendHistoryEvents that tries again with Overwrite after any error.
AppendHistoryEvents_RetryAnyError(m, request, fault, fault2, staleErr) ==
  LET currentRangeID == m.s.rangeID
      request0 == [request EXCEPT !.RangeID = currentRangeID]
      r0 == HistoryManagerAppendHistoryEvents(m.db, request0, fault, staleErr)
      m0 == [m EXCEPT !.req = request0, !.db = r0.db, !.err = r0.err,
                      !.calls = Append(@, HistoryCall(request0, m.db, r0))]
  IN IF r0.err # Nil
       THEN LET request1 == [request0 EXCEPT !.Overwrite = TRUE]
                r1 == HistoryManagerAppendHistoryEvents(m0.db, request1, fault2, staleErr)
            IN [m0 EXCEPT !.req = request1, !.db = r1.db, !.err = r1.err,
                          !.calls = Append(@, HistoryCall(request1, m0.db, r1))]
       ELSE m0

\* AppendHistoryEvents whose second attempt repeats the first, without Overwrite.
AppendHistoryEvents_NoOverwrite(m, request, fault, fault2, staleErr) ==
  LET currentRangeID == m.s.rangeID
      request0 == [request EXCEPT !.RangeID = currentRangeID]
      r0 == HistoryManagerAppendHistoryEvents(m.db, request0, fault, staleErr)
      m0 == [m EXCEPT !.req = request0, !.db = r0.db, !.err = r0.err,
                      !.calls = Append(@, HistoryCall(request0, m.db, r0))]
  IN IF r0.err = ConditionFailed
       THEN LET r1 == HistoryManagerAppendHistoryEvents(m0.db, request0, fault2, staleErr)
            IN [m0 EXCEPT !.db = r1.db, !.err = r1.err,
                          !.calls = Append(@, HistoryCall(request0, m0.db, r1))]
       ELSE m0

\* Takes no lock: the RangeID it stamps is the atomic s.rangeID.
AppendHistoryEvents(m, request, fault, fault2, staleErr) ==
  LET currentRangeID == m.s.rangeID
      request0 == [request EXCEPT !.RangeID = currentRangeID]
      r0 == HistoryManagerAppendHistoryEvents(m.db, request0, fault, staleErr)
      m0 == [m EXCEPT !.req = request0, !.db = r0.db, !.err = r0.err,
                      !.calls = Append(@, HistoryCall(request0, m.db, r0))]
  IN IF r0.err = ConditionFailed
       THEN LET request1 == [request0 EXCEPT !.Overwrite = TRUE]
                r1 == HistoryManagerAppendHistoryEvents(m0.db, request1, fault2, staleErr)
            IN [m0 EXCEPT !.req = request1, !.db = r1.db, !.err = r1.err,
                          !.calls = Append(@, HistoryCall(request1, m0.db, r1))]
       ELSE m0

\* acquireShard: the context it builds, or none when GetShard or the renewal fails.
\* acquireShard that renews as a holder of the shard does, not as one stealing it.
acquireShard_NotStealing(m, owner, gfault, fault) ==
  LET response == ShardManagerGetShard(m.db, gfault)
  IN IF response.err # Nil THEN [m EXCEPT !.err = response.err]
     ELSE LET updatedShardInfo == [copyShardInfo(response.shardInfo) EXCEPT !.Owner = owner]
              context == [state |-> "live", rangeID |-> 0, isClosed |-> FALSE,
                          shardInfo |-> updatedShardInfo,
                          transferSequenceNumber |-> 0,
                          maxTransferSequenceNumber |-> 0,
                          transferMaxReadLevel |-> 0]
              m1 == renewRangeLocked([m EXCEPT !.s = context], FALSE, fault)
          IN IF m1.err # Nil THEN [m1 EXCEPT !.s = m.s] ELSE m1

acquireShard(m, owner, gfault, fault) ==
  LET response == ShardManagerGetShard(m.db, gfault)
  IN IF response.err # Nil THEN [m EXCEPT !.err = response.err]
     ELSE LET updatedShardInfo == [copyShardInfo(response.shardInfo) EXCEPT !.Owner = owner]
              context == [state |-> "live", rangeID |-> 0, isClosed |-> FALSE,
                          shardInfo |-> updatedShardInfo,
                          transferSequenceNumber |-> 0,
                          maxTransferSequenceNumber |-> 0,
                          transferMaxReadLevel |-> 0]
              m1 == renewRangeLocked([m EXCEPT !.s = context], TRUE, fault)
          IN IF m1.err # Nil THEN [m1 EXCEPT !.s = m.s] ELSE m1

\* ------------------------------------------- the mutable-state builder
\* Of the builder only what the update transaction reads: whether the context
\* holds one, its NextEventID and the events added in the open update session.

NilBuilder == [loaded |-> FALSE, NextEventID |-> 0, newEvents |-> 0, continueAsNew |-> FALSE]

\* newMutableStateBuilder followed by Load(state)
msBuilderLoad(state) ==
  [loaded |-> TRUE, NextEventID |-> state.NextEventID, newEvents |-> 0, continueAsNew |-> FALSE]

\* Any operation of the session that adds one event to the history batch.
msBuilderAddEvent(b) == [b EXCEPT !.NextEventID = @ + 1, !.newEvents = @ + 1]

\* The decision that continues the workflow as a new run: it adds the closing
\* event of this run and records the new run in the session's updates.
msBuilderContinueAsNew(b) == [msBuilderAddEvent(b) EXCEPT !.continueAsNew = TRUE]

\* CloseUpdateSession: the session's updates, and the builder ready for the next
\* session.
CloseUpdateSession(b) ==
  [msBuilder |-> [b EXCEPT !.newEvents = 0, !.continueAsNew = FALSE],
   newEvents |-> b.newEvents,
   continueAsNew |-> b.continueAsNew,
   firstEventID |-> b.NextEventID - b.newEvents]

\* common.IsPersistenceTransientError
IsPersistenceTransientError(err) == err \in {ServiceBusy, Timeout}

\* ---------------------------------------- the workflow-execution context
\* A method is computed on a record x: the context w, the shard machine m it
\* writes through, and its error err.

\* deleteTimerTask is the id of the timer task the context holds, 0 for nil.
NoExecutionContext == [msBuilder |-> NilBuilder, updateCondition |-> 0, deleteTimerTask |-> 0]

clear(w) == [w EXCEPT !.msBuilder = NilBuilder]

\* backoff.Retry over executionManager.GetWorkflowExecution; fault is what the
\* store does until the policy expires.
getWorkflowExecutionWithRetry(d, fault) == ExecutionManagerGetWorkflowExecution(d, fault)

loadWorkflowExecution(w, d, fault) ==
  IF w.msBuilder.loaded THEN [w |-> w, err |-> Nil]
  ELSE LET response == getWorkflowExecutionWithRetry(d, fault)
       IN IF response.err # Nil THEN [w |-> w, err |-> response.err]
          ELSE [w |-> [w EXCEPT !.msBuilder = msBuilderLoad(response.state),
                                !.updateCondition = response.state.NextEventID],
                err |-> Nil]

\* backoff.Retry over shard.UpdateWorkflowExecution: attempt i meets the faults
\* fs[i], and the policy expires after attempt Len(fs).
RECURSIVE updateWorkflowExecutionWithRetry(_, _, _, _)
\* backoff.Retry after attempt i ended in machine m1: a transient error is retried
\* until the policy expires.
backoffRetry(m1, request, fs, i) ==
  IF m1.err # Nil /\ IsPersistenceTransientError(m1.err) /\ i < Len(fs)
    THEN updateWorkflowExecutionWithRetry(m1, request, fs, i + 1)
    ELSE m1

updateWorkflowExecutionWithRetry(m, request, fs, i) ==
  backoffRetry(UpdateWorkflowExecution(m, request, fs[i][1], fs[i][2], fs[i][3]),
               request, fs, i)

\* f.serialize: Serialize fails; f.append: the faults AppendHistoryEvents meets;
\* f.update: the faults the attempts of the row update meet.

\* The row update's error handling that keeps the cached builder.
updateWorkflowExecutionUpdated_KeepBuilder(x0, m2) ==
  IF m2.err # Nil
    THEN [x0 EXCEPT !.m = m2,
                    !.err = IF m2.err = ConditionFailed THEN ErrConflict ELSE m2.err]
    ELSE [x0 EXCEPT !.w.updateCondition = x0.w.msBuilder.NextEventID, !.m = m2]

\* updateWorkflowExecution once the row update ended in machine m2.
updateWorkflowExecutionUpdated(x0, m2) ==
  IF m2.err # Nil
    THEN [x0 EXCEPT !.w = clear(x0.w), !.m = m2,
                    !.err = IF m2.err = ConditionFailed THEN ErrConflict ELSE m2.err]
    ELSE [x0 EXCEPT !.w.updateCondition = x0.w.msBuilder.NextEventID, !.m = m2]

\* The row update issued whatever the history append returned.
updateWorkflowExecutionAppended_IgnoreError(x0, m1, request, fs) ==
  updateWorkflowExecutionUpdated(x0, updateWorkflowExecutionWithRetry(m1, request, fs, 1))

\* updateWorkflowExecution once the history append (if any) ended in machine m1.
updateWorkflowExecutionAppended(x0, m1, request, fs) ==
  IF m1.err # Nil
    THEN [x0 EXCEPT !.w = clear(x0.w), !.m = m1,
                    !.err = IF m1.err = ConditionFailed THEN ErrConflict ELSE m1.err]
    ELSE updateWorkflowExecutionUpdated(x0,
           updateWorkflowExecutionWithRetry(m1, request, fs, 1))

\* updateWorkflowExecution that conditions the row update on the row's own
\* NextEventID, not on the update condition the context has cached.
updateWorkflowExecution_RowCondition(w, m, transferTasks, timerTasks, transactionID, f) ==
  LET updates == CloseUpdateSession(w.msBuilder)
      w0 == [w EXCEPT !.msBuilder = updates.msBuilder]
      x0 == [w |-> w0, m |-> m, err |-> Nil, newEvents |-> updates.newEvents,
             condition |-> w.updateCondition]
  IN IF updates.newEvents > 0 /\ f.serialize THEN [x0 EXCEPT !.err = SerializationError]
     ELSE CHOOSE x \in
            {updateWorkflowExecutionAppended(x0, m1,
               [TransferTasks |-> transferTasks, ContinueAsNewTransferTasks |-> <<>>,
                TimerTasks |-> timerTasks, RangeID |-> 0,
                ContinueAsNew |-> updates.continueAsNew,
                Condition |-> m.db.exec.NextEventID,
                DeleteTimerTask |-> w0.deleteTimerTask,
                NextEventID |-> w0.msBuilder.NextEventID],
               f.update) :
               m1 \in {IF updates.newEvents > 0
                         THEN AppendHistoryEvents(m,
                                [Execution |-> CurrentRun,
                                 FirstEventID |-> updates.firstEventID,
                                 TransactionID |-> transactionID,
                                 Overwrite |-> FALSE, RangeID |-> 0],
                                f.append[1], f.append[2], f.append[3])
                         ELSE m}} : TRUE

updateWorkflowExecution(w, m, transferTasks, timerTasks, transactionID, f) ==
  LET updates == CloseUpdateSession(w.msBuilder)
      w0 == [w EXCEPT !.msBuilder = updates.msBuilder]
      x0 == [w |-> w0, m |-> m, err |-> Nil, newEvents |-> updates.newEvents,
             condition |-> w.updateCondition]
  IN IF updates.newEvents > 0 /\ f.serialize THEN [x0 EXCEPT !.err = SerializationError]
     ELSE CHOOSE x \in
            {updateWorkflowExecutionAppended(x0, m1,
               [TransferTasks |-> transferTasks, ContinueAsNewTransferTasks |-> <<>>,
                TimerTasks |-> timerTasks, RangeID |-> 0,
                ContinueAsNew |-> updates.continueAsNew,
                Condition |-> w0.updateCondition,
                DeleteTimerTask |-> w0.deleteTimerTask,
                NextEventID |-> w0.msBuilder.NextEventID],
               f.update) :
               m1 \in {IF updates.newEvents > 0
                         THEN AppendHistoryEvents(m,
                                [Execution |-> CurrentRun,
                                 FirstEventID |-> updates.firstEventID,
                                 TransactionID |-> transactionID,
                                 Overwrite |-> FALSE, RangeID |-> 0],
                                f.append[1], f.append[2], f.append[3])
                         ELSE m}} : TRUE

updateWorkflowExecutionWithDeleteTask(w, m, transferTasks, timerTasks, deleteTimerTask, transactionID, f) ==
  updateWorkflowExecution([w EXCEPT !.deleteTimerTask = deleteTimerTask], m,
                          transferTasks, timerTasks, transactionID, f)

\* The execution context bytes it stores in the builder's executionInfo are not
\* part of the model.
updateWorkflowExecutionWithContext(w, m, context, transferTasks, timerTasks, transactionID, f) ==
  updateWorkflowExecution(w, m, transferTasks, timerTasks, transactionID, f)

\* What continueAsNewWorkflowExecution returns before it reaches the update of
\* the old run: the context untouched, the error of the step that failed.
continueAsNewReturned(w, m, err) ==
  [w |-> w, m |-> m, err |-> err, newEvents |-> w.msBuilder.newEvents,
   condition |-> w.updateCondition]

\* The old run's update issued whatever the new run's append returned.
continueAsNewAppended_IgnoreError(w, m1, transferTasks, timerTasks, transactionID, f) ==
  updateWorkflowExecution(w, m1, transferTasks, timerTasks, transactionID, f)

\* continueAsNewWorkflowExecution once the append of the new run's first batch
\* ended in machine m1.
continueAsNewAppended(w, m1, transferTasks, timerTasks, transactionID, f) ==
  IF m1.err # Nil THEN continueAsNewReturned(w, m1, m1.err)
  ELSE updateWorkflowExecution(w, m1, transferTasks, timerTasks, transactionID, f)

\* f.serializeNew: Serialize of the new run's history fails; f.appendNew: the
\* faults the append of the new run's first batch meets; the rest of f is for
\* the update of the old run.
continueAsNewWorkflowExecution(w, m, transferTasks, timerTasks, transactionID, f) ==
  IF f.serializeNew THEN continueAsNewReturned(w, m, SerializationError)
  ELSE CHOOSE x \in
         {continueAsNewAppended(w, m1, transferTasks, timerTasks, transactionID, f) :
            m1 \in {AppendHistoryEvents(m,
                      [Execution |-> NewRun, FirstEventID |-> 1, TransactionID |-> 0,
                       Overwrite |-> FALSE, RangeID |-> 0],
                      f.appendNew[1], f.appendNew[2], f.appendNew[3])}} : TRUE

\* ------------------------------------------------------------ the machine

NoContext ==
  [state |-> "none", rangeID |-> 0, isClosed |-> FALSE,
   shardInfo |-> [RangeID |-> 0, Owner |-> "", StolenSinceRenew |-> 0,
                  TransferAckLevel |-> 0, TimerAckLevel |-> 0],
   transferSequenceNumber |-> 0, maxTransferSequenceNumber |-> 0,
   transferMaxReadLevel |-> 0]

NoRequest == [TransferTasks |-> <<>>, ContinueAsNewTransferTasks |-> <<>>, TimerTasks |-> <<>>]

\* What a handler starts from, on context c.
Machine(c) ==
  [c |-> c, s |-> ctx[c], db |-> db, ch |-> closeCh, calls |-> <<>>, assigned |-> <<>>,
   req |-> NoRequest, rl |-> 0, err |-> Nil]

AssignedIDs(m) == {m.assigned[i].id : i \in DOMAIN m.assigned}

UnknownKind(api, err) ==
  /\ err \notin {Nil, ServiceBusy, ShardOwnershipLost}
  /\ api = "CreateWorkflowExecution" => err # AlreadyStarted
  /\ api = "UpdateWorkflowExecution" => err # ConditionFailed

\* The RangeIDs that handler run m stamped on a Create/Update whose outcome it
\* could not know.
UncertainStamps(m) ==
  {m.calls[i].stamp : i \in
     {j \in DOMAIN m.calls : /\ m.calls[j].api \in {"CreateWorkflowExecution",
                                                    "UpdateWorkflowExecution"}
                             /\ UnknownKind(m.calls[j].api, m.calls[j].err)}}

SawOwnershipLost(m) == \E i \in DOMAIN m.calls : m.calls[i].err = ShardOwnershipLost

\* The store, the shard context and the close channel after a handler has run
\* from Machine(c) to m.
Commit(c, m) ==
  /\ m.db.shard.RangeID <= MaxRangeID
  /\ db' = m.db
  /\ ctx' = [ctx EXCEPT ![c] = m.s]
  /\ closeCh' = m.ch
  /\ issued' = [id \in TaskIDs |->
                  issued[id] + Cardinality({i \in DOMAIN m.assigned : m.assigned[i].id = id})]
  /\ hist' = [hist EXCEPT
       ![c].lost = @ \/ SawOwnershipLost(m),
       ![c].uncertain = @ \cup UncertainStamps(m),
       ![c].lastID = MaxOr(AssignedIDs(m) \cup {@}, -1)]

\* The state after a handler of the shard context has run from Machine(c) to m.
Finish(c, m) ==
  /\ Commit(c, m)
  /\ ncalls' = ncalls + 1
  /\ UNCHANGED <<wctx, lockVars, frontendVars>>

Live(c) == ctx[c].state = "live"

CanCall(c) == ncalls < MaxCalls /\ Live(c)

\* Context c holds the shard's current range: the store's fence lets its writes
\* through, and only then does a fault of the store decide anything.
Fresh(c) == ctx[c].shardInfo.RangeID = db.shard.RangeID

\* A renewal is attempted when n ids are asked of context c.
RenewalDue(c, n) ==
  ctx[c].transferSequenceNumber + n > ctx[c].maxTransferSequenceNumber

ShardFaultsIf(b) == IF b THEN ShardFaults ELSE {"none"}

FaultsIf(b) == IF b THEN Faults ELSE {"none"}

NewTasks(n) == [i \in 1..n |-> 0]

TimerTaskLists ==
  UNION {[1..n -> {[ts |-> ts, id |-> 0] : ts \in 0..MaxTimestamp}] : n \in 0..MaxTasks}

TaskCount(request) ==
  Len(request.TransferTasks) + Len(request.ContinueAsNewTransferTasks) + Len(request.TimerTasks)

CreateRequests ==
  {request \in
     {[TransferTasks |-> NewTasks(n), ContinueAsNewTransferTasks |-> <<>>,
       TimerTasks |-> timers, RangeID |-> 0, NextEventID |-> FirstNextEventID] :
        n \in 0..MaxTasks, timers \in TimerTaskLists} :
     TaskCount(request) <= MaxTasks}

\* The condition a caller passes is the NextEventID it has cached: that of some
\* earlier state of the row, or of a row it never loaded.
Conditions == (FirstNextEventID - 1)..MaxEventID

UpdateRequests ==
  {request \in
     {[TransferTasks |-> NewTasks(n[1]), ContinueAsNewTransferTasks |-> NewTasks(n[2]),
       TimerTasks |-> timers, RangeID |-> 0,
       ContinueAsNew |-> n[2] > 0,
       Condition |-> condition, NextEventID |-> MaxEventID] :
        n \in (0..MaxTasks) \X (0..1), timers \in TimerTaskLists,
        condition \in Conditions} :
     TaskCount(request) <= MaxTasks}

AppendRequests ==
  {[Execution |-> CurrentRun, FirstEventID |-> 1, TransactionID |-> transactionID,
    Overwrite |-> FALSE, RangeID |-> 0] :
     transactionID \in 1..MaxTransactionID}

\* The faults that decide something when context c runs Create or Update on a
\* request of n tasks: <<id renewal, execution write, uncertain-write renewal>>.
\* answered: the store's answer to the execution write is of a classified kind.
ExecFaults(c, n, answered) ==
  {f \in ShardFaultsIf(Fresh(c) /\ RenewalDue(c, n)) \X FaultsIf(Fresh(c)) \X ShardFaults :
     /\ f[1] = "none" \/ (f[2] = "none" /\ f[3] = "none")
     /\ \/ f[3] = "none"
        \/ f[2] \in {"TimeoutLost", "TimeoutApplied"}
        \/ f[2] = "none" /\ ~answered}

AppendFaults(c) ==
  {f \in FaultsIf(Fresh(c)) \X {"none", "ServiceBusy"} \X {ConditionFailed, ShardOwnershipLost} :
     /\ (f[1] = "none" /\ db.history[1].exists /\ Fresh(c)) \/ f[2] = "none"
     /\ ~Fresh(c) \/ f[3] = ConditionFailed}

\* ---- what each handler can do from the current state, over all its inputs

acquireShardOutcomes(c) ==
  {acquireShard(Machine(c), HostOf(c), f[1], f[2]) :
     f \in {g \in {"none", "ServiceBusy"} \X ShardFaults : g[1] = "none" \/ g[2] = "none"}}

GetNextTransferTaskIDOutcomes(c) ==
  {GetNextTransferTaskID(Machine(c), fault) :
     fault \in ShardFaultsIf(Fresh(c) /\ RenewalDue(c, 1))}

UpdateTransferAckLevelOutcomes(c) ==
  {UpdateTransferAckLevel(Machine(c), ackLevel, fault) :
     ackLevel \in 0..MaxTransferAckLevel, fault \in ShardFaultsIf(Fresh(c))}

UpdateTimerAckLevelOutcomes(c) ==
  {UpdateTimerAckLevel(Machine(c), ackLevel, fault) :
     ackLevel \in 0..MaxTimerAckLevel, fault \in ShardFaultsIf(Fresh(c))}

CreateWorkflowExecutionOutcomes(c) ==
  UNION {{CreateWorkflowExecution(Machine(c), request, f[1], f[2], f[3]) :
            f \in ExecFaults(c, TaskCount(request), TRUE)} :
         request \in CreateRequests}

UpdateWorkflowExecutionOutcomes(c) ==
  UNION {{UpdateWorkflowExecution(Machine(c), request, f[1], f[2], f[3]) :
            f \in {g \in ExecFaults(c, TaskCount(request), db.exec.exists) :
                      \/ request.Condition = db.exec.NextEventID
                      \/ g[2] = "none"}} :
         request \in UpdateRequests}

AppendHistoryEventsOutcomes(c) ==
  UNION {{AppendHistoryEvents(Machine(c), request, f[1], f[2], f[3]) :
            f \in AppendFaults(c)} :
         request \in AppendRequests}

\* Every handler that writes to the store.
WriteOutcomes(c) ==
  GetNextTransferTaskIDOutcomes(c) \cup UpdateTransferAckLevelOutcomes(c)
    \cup UpdateTimerAckLevelOutcomes(c) \cup CreateWorkflowExecutionOutcomes(c)
    \cup UpdateWorkflowExecutionOutcomes(c) \cup AppendHistoryEventsOutcomes(c)

\* The store as Service.Start leaves it: the shard row, no execution, no history.
InitialDB ==
  [shard |-> [RangeID |-> InitialRangeID, Owner |-> "", StolenSinceRenew |-> 0,
              TransferAckLevel |-> 0, TimerAckLevel |-> 0],
   exec |-> [exists |-> FALSE, NextEventID |-> 0],
   maxTaskID |-> -1,
   history |-> [f \in 1..MaxBuilderEventID |-> [exists |-> FALSE, TransactionID |-> 0]],
   newRunHistory |-> [exists |-> FALSE, TransactionID |-> 0]]

Init ==
  /\ db = InitialDB
  /\ wctx = [e \in ExecCtx |-> NoExecutionContext]
  /\ ctx = [c \in Ctx |-> NoContext]
  /\ closeCh = <<>>
  /\ issued = [id \in TaskIDs |-> 0]
  /\ hist = [c \in Ctx |-> [lost |-> FALSE, uncertain |-> {}, lastID |-> -1]]
  /\ ncalls = 0
  /\ IdleLock
  /\ IdleFrontend

\* The shard controller builds the next context for the shard.
AcquireShardStep ==
  \E c \in Ctx :
    /\ ncalls < MaxCalls
    /\ ~Live(c)
    /\ \A b \in 1..(c - 1) : Live(b)
    /\ \E m \in acquireShardOutcomes(c) : Finish(c, m)

GetNextTransferTaskIDStep ==
  \E c \in Ctx : CanCall(c) /\ \E m \in GetNextTransferTaskIDOutcomes(c) : Finish(c, m)

UpdateTransferAckLevelStep ==
  \E c \in Ctx : CanCall(c) /\ \E m \in UpdateTransferAckLevelOutcomes(c) : Finish(c, m)

UpdateTimerAckLevelStep ==
  \E c \in Ctx : CanCall(c) /\ \E m \in UpdateTimerAckLevelOutcomes(c) : Finish(c, m)

CreateWorkflowExecutionStep ==
  \E c \in Ctx : CanCall(c) /\ \E m \in CreateWorkflowExecutionOutcomes(c) : Finish(c, m)

UpdateWorkflowExecutionStep ==
  \E c \in Ctx : CanCall(c) /\ \E m \in UpdateWorkflowExecutionOutcomes(c) : Finish(c, m)

AppendHistoryEventsStep ==
  \E c \in Ctx : CanCall(c) /\ \E m \in AppendHistoryEventsOutcomes(c) : Finish(c, m)

Next ==
  \/ AcquireShardStep
  \/ GetNextTransferTaskIDStep
  \/ UpdateTransferAckLevelStep
  \/ UpdateTimerAckLevelStep
  \/ CreateWorkflowExecutionStep
  \/ UpdateWorkflowExecutionStep
  \/ AppendHistoryEventsStep

Spec == Init /\ [][Next]_vars

\* ------------------------------- the execution contexts of one execution
\* All of them write through the shard context the first acquireShard built.

ShardOf(e) == 1

\* The faults one updateWorkflowExecution of context e can meet: Serialize fails,
\* or the history append fails, or the attempts of the row update meet faults.
NoFaults == <<"none", "none", "none">>

\* The faults of the attempts of a row update that is retried: each attempt but
\* the last meets a transient fault.
RetriedFaults ==
  UNION {{[i \in 1..k |-> IF i < k THEN pre[i] ELSE g] :
            pre \in [1..(k - 1) -> {<<"none", "ServiceBusy", "none">>,
                                    <<"none", "TimeoutApplied", "none">>}],
            g \in {NoFaults, <<"none", "ServiceBusy", "none">>}} :
         k \in 2..MaxAttempts}

UpdateFaults(e, n) ==
  {[serialize |-> TRUE, append |-> <<"none", "none", ConditionFailed>>, update |-> <<NoFaults>>]}
    \cup {[serialize |-> FALSE, append |-> f, update |-> <<NoFaults>>] :
            f \in AppendFaults(ShardOf(e))}
    \cup {[serialize |-> FALSE, append |-> <<"none", "none", ConditionFailed>>, update |-> fs] :
            fs \in {<<f>> : f \in ExecFaults(ShardOf(e), n, db.exec.exists)} \cup RetriedFaults}

loadWorkflowExecutionOutcomes(e) ==
  {loadWorkflowExecution(wctx[e], db, fault) : fault \in {"none", "ServiceBusy"}}

updateWorkflowExecutionOutcomes(e) ==
  UNION {{updateWorkflowExecution(wctx[e], Machine(ShardOf(e)), NewTasks(n), <<>>,
                                  transactionID, f) :
            transactionID \in 1..MaxTransactionID, f \in UpdateFaults(e, n)} :
         n \in 0..1}

\* The faults the append of the new run's first batch can meet on context c.
NewRunAppendFaults(c) ==
  {f \in FaultsIf(Fresh(c)) \X {"none", "ServiceBusy"} \X {ConditionFailed, ShardOwnershipLost} :
     /\ (f[1] = "none" /\ db.newRunHistory.exists /\ Fresh(c)) \/ f[2] = "none"
     /\ ~Fresh(c) \/ f[3] = ConditionFailed}

WithNewRunFaults(f, serializeNew, appendNew) ==
  [serializeNew |-> serializeNew, appendNew |-> appendNew,
   serialize |-> f.serialize, append |-> f.append, update |-> f.update]

UnfaultedUpdate ==
  [serialize |-> FALSE, append |-> <<"none", "none", ConditionFailed>>, update |-> <<NoFaults>>]

\* The faults one continueAsNewWorkflowExecution of context e can meet: one of
\* its own two steps fails, or the update of the old run meets its faults (its
\* row update in one attempt).
ContinueAsNewFaults(e, n) ==
  {WithNewRunFaults(UnfaultedUpdate, TRUE, <<"none", "none", ConditionFailed>>)}
    \cup {WithNewRunFaults(UnfaultedUpdate, FALSE, g) : g \in NewRunAppendFaults(ShardOf(e))}
    \cup {WithNewRunFaults(f, FALSE, <<"none", "none", ConditionFailed>>) :
            f \in {g \in UpdateFaults(e, n) : Len(g.update) = 1}}

\* The decision handler records the continue-as-new in the session and persists.
continueAsNewWorkflowExecutionOutcomes(e) ==
  {continueAsNewWorkflowExecution(
     [wctx[e] EXCEPT !.msBuilder = msBuilderContinueAsNew(@)],
     Machine(ShardOf(e)), <<>>, <<>>, transactionID, f) :
     transactionID \in 1..MaxTransactionID, f \in ContinueAsNewFaults(e, 0)}

\* The state with the shard acquired by the first context and the execution
\* started on it.
StartedMachine ==
  LET m0 == [c |-> 1, s |-> NoContext, db |-> InitialDB, ch |-> <<>>, calls |-> <<>>,
             assigned |-> <<>>, req |-> NoRequest, rl |-> 0, err |-> Nil]
      m1 == acquireShard(m0, HostOf(1), "none", "none")
  IN CreateWorkflowExecution([m1 EXCEPT !.calls = <<>>],
       [TransferTasks |-> NewTasks(1), ContinueAsNewTransferTasks |-> <<>>,
        TimerTasks |-> <<>>, RangeID |-> 0, NextEventID |-> FirstNextEventID],
       "none", "none", "none")

\* The state after handler run m of the first context, with no execution context
\* loaded.
InitFrom(m) ==
  /\ db = m.db
  /\ ctx = [c \in Ctx |-> IF c = 1 THEN m.s ELSE NoContext]
  /\ closeCh = <<>>
  /\ issued = [id \in TaskIDs |-> IF id \in AssignedIDs(m) THEN 1 ELSE 0]
  /\ hist = [c \in Ctx |-> [lost |-> FALSE, uncertain |-> {},
                            lastID |-> IF c = 1 THEN MaxOr(AssignedIDs(m), -1) ELSE -1]]
  /\ ncalls = 0
  /\ wctx = [e \in ExecCtx |-> NoExecutionContext]
  /\ IdleLock
  /\ IdleFrontend

InitExec == InitFrom(StartedMachine)

LoadWorkflowExecutionStep ==
  \E e \in ExecCtx :
    /\ ncalls < MaxCalls
    /\ ~wctx[e].msBuilder.loaded
    /\ \E x \in loadWorkflowExecutionOutcomes(e) : wctx' = [wctx EXCEPT ![e] = x.w]
    /\ ncalls' = ncalls + 1
    /\ UNCHANGED <<db, ctx, closeCh, issued, hist, lockVars, frontendVars>>

\* A request handler adds an event to the open update session.
AddEventStep ==
  \E e \in ExecCtx :
    /\ ncalls < MaxCalls
    /\ wctx[e].msBuilder.loaded
    /\ wctx[e].msBuilder.NextEventID < MaxBuilderEventID
    /\ wctx' = [wctx EXCEPT ![e].msBuilder = msBuilderAddEvent(@)]
    /\ ncalls' = ncalls + 1
    /\ UNCHANGED <<db, ctx, closeCh, issued, hist, lockVars, frontendVars>>

UpdateWorkflowExecutionContextStep ==
  \E e \in ExecCtx :
    /\ ncalls < MaxCalls
    /\ wctx[e].msBuilder.loaded
    /\ \E x \in updateWorkflowExecutionOutcomes(e) :
         /\ Commit(ShardOf(e), x.m)
         /\ wctx' = [wctx EXCEPT ![e] = x.w]
    /\ ncalls' = ncalls + 1
    /\ UNCHANGED <<lockVars, frontendVars>>

ContinueAsNewStep ==
  \E e \in ExecCtx :
    /\ ncalls < MaxCalls
    /\ wctx[e].msBuilder.loaded
    /\ wctx[e].msBuilder.NextEventID < MaxBuilderEventID
    /\ \E x \in continueAsNewWorkflowExecutionOutcomes(e) :
         /\ Commit(ShardOf(e), x.m)
         /\ wctx' = [wctx EXCEPT ![e] = x.w]
    /\ ncalls' = ncalls + 1
    /\ UNCHANGED <<lockVars, frontendVars>>

NextExec ==
  \/ LoadWorkflowExecutionStep
  \/ AddEventStep
  \/ UpdateWorkflowExecutionContextStep
  \/ ContinueAsNewStep
  \/ AcquireShardStep

SpecExec == InitExec /\ [][NextExec]_vars

\* ================================================================ the claims

LiveCtx == {c \in Ctx : Live(c)}

\* The contexts a handler can run on next.
Callers == {c \in Ctx : CanCall(c)}

ExecutionOutcomes(c) ==
  CreateWorkflowExecutionOutcomes(c) \cup UpdateWorkflowExecutionOutcomes(c)

\* The handlers that draw ids from the sequencer.
SequencerOutcomes(c) == GetNextTransferTaskIDOutcomes(c) \cup ExecutionOutcomes(c)

\* The calls handler run m made to the execution manager.
ExecutionCalls(m) ==
  {m.calls[i] : i \in {j \in DOMAIN m.calls :
      m.calls[j].api \in {"CreateWorkflowExecution", "UpdateWorkflowExecution"}}}

Committed(m) == \E call \in ExecutionCalls(m) : call.applied

IssuedIDs == {id \in TaskIDs : issued[id] > 0}

InRange(id, r) == Shl(r, RangeSizeBits) <= id /\ id < Shl(r + 1, RangeSizeBits)

Signalled(ch, c) == \E i \in DOMAIN ch : ch[i] = c

\* C1: the tasks of a transaction that commits through CreateWorkflowExecution or
\* UpdateWorkflowExecution carry ids above the id of every task committed before.
TaskIDsFollowCommitOrder ==
  \A c \in Callers : \A m \in ExecutionOutcomes(c) :
    Committed(m) => \A id \in TaskIDsOf(m.req) : id > db.maxTaskID

\* C2 as stated: every task of a request that Create/Update sends to the store
\* stamped with RangeID r carries an id in [r << B, (r + 1) << B).
StampedRequestIDsInRange ==
  \A c \in Callers : \A m \in ExecutionOutcomes(c) : \A call \in ExecutionCalls(m) :
    \A id \in TaskIDsOf(m.req) : InRange(id, call.stamp)

\* C2 as amended: every id the sequencer of an open context hands out lies in the
\* range of the RangeID the context holds at that moment, and every id handed out
\* for a request lies below the end of the range the request is stamped with.
HandedOutIDsInRange ==
  \A c \in Callers : \A m \in SequencerOutcomes(c) :
    /\ \A i \in DOMAIN m.assigned :
         m.assigned[i].RangeID # ClosedRangeID
           => InRange(m.assigned[i].id, m.assigned[i].RangeID)
    /\ \A call \in ExecutionCalls(m) :
         call.stamp # ClosedRangeID
           => \A id \in AssignedIDs(m) : id < Shl(call.stamp + 1, RangeSizeBits)

\* A request whose id assignment crossed the end of a range is committed.
RangeCrossingCommitted ==
  \E c \in Callers : \E m \in ExecutionOutcomes(c) :
    /\ Committed(m)
    /\ \E i, j \in DOMAIN m.assigned :
         /\ m.assigned[i].RangeID + 1 = m.assigned[j].RangeID
         /\ ~InRange(m.assigned[i].id, m.req.RangeID)
         /\ InRange(m.assigned[j].id, m.req.RangeID)

\* C3 as stated: on one shard no id is handed out twice, and every id handed out
\* is above all ids handed out before, whichever context hands it out.
IDsNeverReusedNorBackwards ==
  \A c \in Callers : \A m \in SequencerOutcomes(c) : \A i \in DOMAIN m.assigned :
    /\ m.assigned[i].id \notin IssuedIDs
    /\ m.assigned[i].id > MaxOr(IssuedIDs, -1)
    /\ \A j \in 1..(i - 1) : m.assigned[j].id < m.assigned[i].id

\* C3 as amended: no id is handed out twice; the ids one context hands out only
\* go up; and the ids handed out by the context that holds the shard's current
\* RangeID are above all ids handed out before.
IDsUniqueAndIncreasingPerContext ==
  /\ \A id \in TaskIDs : issued[id] <= 1
  /\ \A c \in Callers : \A m \in SequencerOutcomes(c) : \A i \in DOMAIN m.assigned :
       /\ m.assigned[i].id \notin IssuedIDs
       /\ m.assigned[i].id > hist[c].lastID
       /\ \A j \in 1..(i - 1) : m.assigned[j].id < m.assigned[i].id
       /\ m.assigned[i].RangeID = m.db.shard.RangeID
            => m.assigned[i].id > MaxOr(IssuedIDs, -1)

\* Two contexts have handed out ids, and the superseded one still hands out more.
SupersededContextHandsOutIDs ==
  \E c \in Callers : \E b \in LiveCtx \ {c} :
    /\ ~Fresh(c) /\ Fresh(b)
    /\ hist[c].lastID >= 0 /\ hist[b].lastID > hist[c].lastID
    /\ \E m \in SequencerOutcomes(c) : m.assigned # <<>>

\* C4: at most one context holds the shard's current RangeID, and a write stamped
\* with another RangeID than the shard row's fails with ConditionFailed or
\* ShardOwnershipLost and changes nothing in the store.
StaleWritesRejected ==
  /\ \A c \in LiveCtx : \A b \in LiveCtx \ {c} : ~(Fresh(c) /\ Fresh(b))
  /\ \A c \in Callers : \A m \in WriteOutcomes(c) : \A i \in DOMAIN m.calls :
       m.calls[i].stamp # m.calls[i].rowRangeID
         => /\ m.calls[i].err \in {ConditionFailed, ShardOwnershipLost}
            /\ ~m.calls[i].applied
            /\ ~m.calls[i].changed

\* A second host has stolen the shard and the first host's context has written
\* since and still writes: with its stale RangeID, each kind of write.
StaleWriteAfterSteal ==
  \E c \in Callers : \E b \in LiveCtx \ {c} :
    /\ Fresh(b) /\ db.shard.Owner = HostOf(b) /\ db.shard.StolenSinceRenew > 0
    /\ ~ctx[c].isClosed /\ ctx[c].shardInfo.RangeID < db.shard.RangeID
    /\ \A api \in {"CreateWorkflowExecution", "UpdateWorkflowExecution",
                   "AppendHistoryEvents", "UpdateShard"} :
         \E m \in WriteOutcomes(c) : \E i \in DOMAIN m.calls :
           /\ m.calls[i].api = api
           /\ m.calls[i].stamp = ctx[c].shardInfo.RangeID
           /\ m.calls[i].err \in {ConditionFailed, ShardOwnershipLost}

\* C5: once a context has got ShardOwnershipLost from the store, none of its
\* later store writes succeeds.
NoWriteSucceedsAfterOwnershipLost ==
  \A c \in Callers : \A m \in WriteOutcomes(c) : \A j \in DOMAIN m.calls :
    (hist[c].lost \/ \E i \in 1..(j - 1) : m.calls[i].err = ShardOwnershipLost)
      => /\ ~m.calls[j].applied
         /\ ~m.calls[j].changed
         /\ m.calls[j].err # Nil

\* A context that has seen ShardOwnershipLost writes again.
WriteAfterOwnershipLost ==
  \E c \in Callers :
    /\ hist[c].lost
    /\ \E m \in AppendHistoryEventsOutcomes(c) : m.calls # <<>>
    /\ \E m \in UpdateWorkflowExecutionOutcomes(c) : m.calls # <<>>
    /\ \E m \in UpdateTimerAckLevelOutcomes(c) : m.calls # <<>>

\* C6: a handler whose store write got ShardOwnershipLost has run closeShard: the
\* context is closed, its RangeID is -1 and the shard is signalled on the close
\* channel.
OwnershipLostClosesShard ==
  \A c \in Callers : \A m \in WriteOutcomes(c) :
    SawOwnershipLost(m)
      => /\ m.s.isClosed
         /\ m.s.shardInfo.RangeID = ClosedRangeID
         /\ Signalled(m.ch, c)

\* C7: a closed context stays closed with RangeID and atomic range id -1 under
\* every later operation, and every UpdateWorkflowExecution on it returns
\* ShardOwnershipLost.
ClosedIsAbsorbing ==
  \A c \in LiveCtx : ctx[c].isClosed =>
    /\ ctx[c].shardInfo.RangeID = ClosedRangeID
    /\ ctx[c].rangeID = ClosedRangeID
    /\ CanCall(c) =>
         /\ \A m \in WriteOutcomes(c) :
              /\ m.s.isClosed
              /\ m.s.shardInfo.RangeID = ClosedRangeID
              /\ m.s.rangeID = ClosedRangeID
         /\ \A m \in UpdateWorkflowExecutionOutcomes(c) : m.err = ShardOwnershipLost

\* A closed context on which an id allocation triggers a renewal and an
\* UpdateWorkflowExecution reaches the store.
ClosedContextOperates ==
  \E c \in Callers :
    /\ ctx[c].isClosed /\ Signalled(closeCh, c)
    /\ \E m \in GetNextTransferTaskIDOutcomes(c) : m.calls # <<>>
    /\ \E m \in UpdateWorkflowExecutionOutcomes(c) :
         \E call \in ExecutionCalls(m) : call.stamp = ClosedRangeID

\* C8: after a Create/Update write whose error is of unknown kind the context has
\* renewed its range (the shard row's RangeID is one higher and the sequencer
\* starts the new range) or is closed, and no later write of the context is
\* stamped with the RangeID of the uncertain write.
UncertainWriteRenewsOrCloses ==
  \A c \in LiveCtx :
    /\ ctx[c].shardInfo.RangeID \notin hist[c].uncertain
    /\ ctx[c].rangeID \notin hist[c].uncertain
    /\ CanCall(c) => \A m \in WriteOutcomes(c) :
         /\ \A i \in DOMAIN m.calls : m.calls[i].stamp \notin hist[c].uncertain
         /\ \A r \in UncertainStamps(m) :
              \/ /\ m.s.isClosed
                 /\ m.s.shardInfo.RangeID = ClosedRangeID
                 /\ m.s.rangeID = ClosedRangeID
              \/ /\ m.s.shardInfo.RangeID = r + 1
                 /\ m.s.rangeID = r + 1
                 /\ m.db.shard.RangeID = r + 1
                 /\ m.s.transferSequenceNumber = Shl(r + 1, RangeSizeBits)

\* A context has renewed after an uncertain write and writes again, and an
\* uncertain write whose renewal fails is about to close a context.
UncertainWriteHappened ==
  /\ \E c \in Callers :
       /\ hist[c].uncertain # {} /\ ~ctx[c].isClosed
       /\ \E m \in UpdateWorkflowExecutionOutcomes(c) : Committed(m)
  /\ \E c \in Callers : \E m \in ExecutionOutcomes(c) :
       UncertainStamps(m) # {} /\ m.s.isClosed /\ ~ctx[c].isClosed

\* C9: no handler lowers TransferAckLevel or TimerAckLevel, in the context or in
\* the shard row.
AckLevelsNeverDecrease ==
  \A c \in Callers : \A m \in WriteOutcomes(c) :
    /\ m.s.shardInfo.TransferAckLevel >= ctx[c].shardInfo.TransferAckLevel
    /\ m.s.shardInfo.TimerAckLevel >= ctx[c].shardInfo.TimerAckLevel
    /\ m.db.shard.TransferAckLevel >= db.shard.TransferAckLevel
    /\ m.db.shard.TimerAckLevel >= db.shard.TimerAckLevel

\* The contexts whose updateWorkflowExecution can run next.
Loaded == {e \in ExecCtx : ncalls < MaxCalls /\ wctx[e].msBuilder.loaded}

\* C10: a successful updateWorkflowExecution leaves the execution row's
\* NextEventID at its value before plus the events of the session, its request's
\* Condition was that value before, and the context's updateCondition is the new
\* NextEventID; and no update lowers the row's NextEventID.
UpdateAdvancesNextEventID ==
  \A e \in Loaded : \A x \in updateWorkflowExecutionOutcomes(e) :
    /\ x.m.db.exec.NextEventID >= db.exec.NextEventID
    /\ x.err = Nil =>
         /\ x.m.db.exec.NextEventID = db.exec.NextEventID + x.newEvents
         /\ x.condition = db.exec.NextEventID
         /\ x.w.updateCondition = x.m.db.exec.NextEventID

\* The runs updateWorkflowExecution of context e can make next, each with the
\* TransactionID its caller supplies.
updateWorkflowExecutionRuns(e) ==
  UNION {{[transactionID |-> transactionID,
           x |-> updateWorkflowExecution(wctx[e], Machine(ShardOf(e)), NewTasks(n), <<>>,
                                         transactionID, f)] :
            transactionID \in 1..MaxTransactionID, f \in UpdateFaults(e, n)} :
         n \in 0..1}

\* The history appends among the store calls of a handler run.
HistoryCalls(calls) == {i \in DOMAIN calls : calls[i].api = "AppendHistoryEvents"}

\* The row updates among the store calls of a handler run.
RowUpdateCalls(calls) == {i \in DOMAIN calls : calls[i].api = "UpdateWorkflowExecution"}

\* What the next loadWorkflowExecution of a context reads when the store answers.
Reloaded(w, d) == loadWorkflowExecution(w, d, "none").w

\* C11: when the history append or the row update of updateWorkflowExecution
\* fails, the cached builder is dropped, so that the next load reads the row
\* again, and the caller gets ErrConflict for ConditionFailed and the error
\* itself for every other error.
UpdateErrorsInvalidateBuilder ==
  \A e \in Loaded : \A x \in updateWorkflowExecutionOutcomes(e) :
    LET calls == x.m.calls
        last == calls[Len(calls)]
    IN /\ x.m.err # Nil =>
            /\ ~x.w.msBuilder.loaded
            /\ x.err = IF x.m.err = ConditionFailed THEN ErrConflict ELSE x.m.err
            /\ x.m.db.exec.exists =>
                 /\ Reloaded(x.w, x.m.db).msBuilder.NextEventID = x.m.db.exec.NextEventID
                 /\ Reloaded(x.w, x.m.db).updateCondition = x.m.db.exec.NextEventID
       /\ (calls # <<>> /\ last.api = "AppendHistoryEvents" /\ last.err # Nil) =>
            x.m.err = last.err
       /\ \A i \in RowUpdateCalls(calls) :
            calls[i].err = ConditionFailed => x.err = ErrConflict /\ ~x.w.msBuilder.loaded
       /\ x.m.err = Nil /\ x.err = Nil => x.w.msBuilder.loaded

\* A context whose row update meets ConditionFailed (another context has moved
\* the row on), whose history append can fail, and whose row update can fail
\* with another error than ConditionFailed.
UpdateFailsInEachPhase ==
  \E e \in Loaded :
    /\ \E x \in updateWorkflowExecutionOutcomes(e) :
         /\ \E i \in RowUpdateCalls(x.m.calls) : x.m.calls[i].err = ConditionFailed
         /\ x.err = ErrConflict
    /\ \E x \in updateWorkflowExecutionOutcomes(e) :
         /\ RowUpdateCalls(x.m.calls) = {} /\ HistoryCalls(x.m.calls) # {}
         /\ x.err \notin {Nil, ErrConflict}
    /\ \E x \in updateWorkflowExecutionOutcomes(e) :
         /\ RowUpdateCalls(x.m.calls) # {}
         /\ x.err \notin {Nil, ErrConflict}

\* C12: when the session added events, the history append (FirstEventID the id
\* of the first new event, the caller's TransactionID) has returned without
\* error before anything of the row update is issued, and nothing is issued after
\* an append that failed; when the session added no event, no append is issued.
UpdateTransactionOrdered ==
  \A e \in Loaded : \A run \in updateWorkflowExecutionRuns(e) :
    LET calls == run.x.m.calls
        appends == HistoryCalls(calls)
        others == DOMAIN calls \ appends
        newEvents == wctx[e].msBuilder.newEvents
    IN /\ run.x.newEvents = newEvents
       /\ newEvents = 0 => appends = {}
       /\ newEvents > 0 =>
            /\ \A i \in appends :
                 /\ calls[i].FirstEventID = wctx[e].msBuilder.NextEventID - newEvents
                 /\ calls[i].TransactionID = run.transactionID
            /\ \A i \in appends : \A j \in others : i < j
            /\ others # {} => appends # {} /\ calls[SetMax(appends)].err = Nil

\* One context closes a session with events: its append succeeds and the row
\* update follows, or its append fails and nothing follows; another context
\* closes a session without events and updates the row.
AppendThenRowUpdate ==
  /\ \E e \in Loaded :
       /\ wctx[e].msBuilder.newEvents > 0
       /\ \E x \in updateWorkflowExecutionOutcomes(e) :
            /\ HistoryCalls(x.m.calls) # {} /\ RowUpdateCalls(x.m.calls) # {}
            /\ x.err = Nil
       /\ \E x \in updateWorkflowExecutionOutcomes(e) :
            /\ HistoryCalls(x.m.calls) # {} /\ RowUpdateCalls(x.m.calls) = {}
            /\ x.err # Nil
  /\ \E e \in Loaded :
       /\ wctx[e].msBuilder.newEvents = 0
       /\ \E x \in updateWorkflowExecutionOutcomes(e) :
            HistoryCalls(x.m.calls) = {} /\ RowUpdateCalls(x.m.calls) # {} /\ x.err = Nil

\* The faults of an updateWorkflowExecution during which the store answers
\* every request.
StoreAnswers ==
  [serialize |-> FALSE, append |-> <<"none", "none", ConditionFailed>>, update |-> <<NoFaults>>]

\* The shard contexts that hold the shard's current range.
Owners == {c \in LiveCtx : Fresh(c) /\ ~ctx[c].isClosed}

\* Context e holds a session whose first event has the id the row waits for, and
\* the history already holds a batch at that id: an earlier update appended it
\* and never updated the row.
ReplaysOrphanBatch(e) ==
  /\ wctx[e].msBuilder.loaded
  /\ wctx[e].msBuilder.newEvents > 0
  /\ wctx[e].msBuilder.NextEventID - wctx[e].msBuilder.newEvents = wctx[e].updateCondition
  /\ wctx[e].updateCondition = db.exec.NextEventID
  /\ db.history[db.exec.NextEventID].exists

\* C13: when the history holds a batch at X from an update that never reached the
\* row, the replay of that update with the same TransactionID gets ConditionFailed
\* on its first append, appends again with Overwrite, leaves one batch at X (that
\* transaction's) and every other batch as it was, and its row update with
\* Condition X succeeds and leaves NextEventID at X plus the events of the session.
OverwriteIsIdempotent ==
  \A e \in ExecCtx : \A c \in Owners : \A n \in 0..1 :
    ReplaysOrphanBatch(e) =>
      LET X == db.exec.NextEventID
          T == db.history[X].TransactionID
          x == updateWorkflowExecution(wctx[e], Machine(c), NewTasks(n), <<>>, T, StoreAnswers)
          calls == x.m.calls
          rows == RowUpdateCalls(calls)
      IN /\ Len(calls) >= 3
         /\ HistoryCalls(calls) = {1, 2}
         /\ calls[1].err = ConditionFailed /\ ~calls[1].Overwrite /\ ~calls[1].applied
         /\ calls[2].err = Nil /\ calls[2].Overwrite /\ calls[2].applied
         /\ \A i \in {1, 2} : calls[i].FirstEventID = X /\ calls[i].TransactionID = T
         /\ x.m.db.history = db.history
         /\ Cardinality(rows) = 1
         /\ \A i \in rows : calls[i].err = Nil /\ calls[i].applied
         /\ x.condition = X
         /\ x.err = Nil
         /\ x.m.db.exec.NextEventID = X + wctx[e].msBuilder.newEvents
         /\ x.w.updateCondition = X + wctx[e].msBuilder.newEvents

\* An update has appended its batch and failed before the row was updated, and a
\* context replays it through a shard context that holds the range.
OrphanBatchReplayed ==
  \E e \in ExecCtx : \E c \in Owners :
    /\ ReplaysOrphanBatch(e)
    /\ updateWorkflowExecution(wctx[e], Machine(c), NewTasks(0), <<>>,
                               db.history[db.exec.NextEventID].TransactionID,
                               StoreAnswers).err = Nil

\* The runs updateWorkflowExecution of context e can make next on the builder
\* and the update condition w that its loadWorkflowExecution returned.
updateWorkflowExecutionAfterLoad(e, w) ==
  UNION {{updateWorkflowExecution(w, Machine(ShardOf(e)), NewTasks(n), <<>>,
                                  transactionID, f) :
            transactionID \in 1..MaxTransactionID, f \in UpdateFaults(e, n)} :
         n \in 0..1}

\* C14: loadWorkflowExecution, then a session closed without events, then a
\* persist that succeeds: no history append is issued, the row update's Condition
\* is the row's NextEventID, and the row's NextEventID and the context's
\* update condition are what they were.
NoOpSessionLeavesRowUnchanged ==
  \A e \in ExecCtx :
    LET l == loadWorkflowExecution(wctx[e], db, "none")
    IN (l.err = Nil /\ l.w.msBuilder.newEvents = 0) =>
         \A x \in updateWorkflowExecutionAfterLoad(e, l.w) :
           x.err = Nil =>
             /\ HistoryCalls(x.m.calls) = {}
             /\ x.condition = db.exec.NextEventID
             /\ x.m.db.exec.NextEventID = db.exec.NextEventID
             /\ x.w.updateCondition = l.w.updateCondition

\* C15: AppendHistoryEvents stamps its request with the context's current range
\* id; when the history manager answers ConditionFailed it calls once more, with
\* Overwrite, and returns what that call returns; otherwise it makes no second
\* call and returns what the first returned.
AppendRetriesOnceWithOverwrite ==
  \A c \in Callers : \A m \in AppendHistoryEventsOutcomes(c) :
    LET calls == m.calls
    IN /\ Len(calls) \in {1, 2}
       /\ \A i \in DOMAIN calls :
            /\ calls[i].api = "AppendHistoryEvents"
            /\ calls[i].stamp = ctx[c].rangeID
            /\ calls[i].FirstEventID = calls[1].FirstEventID
            /\ calls[i].TransactionID = calls[1].TransactionID
       /\ ~calls[1].Overwrite
       /\ calls[1].err = ConditionFailed =>
            Len(calls) = 2 /\ calls[2].Overwrite /\ m.err = calls[2].err
       /\ calls[1].err # ConditionFailed =>
            Len(calls) = 1 /\ m.err = calls[1].err

\* On a context that holds the range an append meets a stored batch and
\* overwrites it, and an append fails on its first call with another error.
AppendMeetsStoredBatch ==
  \E c \in Callers :
    /\ \E m \in AppendHistoryEventsOutcomes(c) :
         /\ Len(m.calls) = 2
         /\ m.calls[1].err = ConditionFailed
         /\ m.calls[2].applied /\ m.err = Nil
    /\ \E m \in AppendHistoryEventsOutcomes(c) :
         Len(m.calls) = 1 /\ m.err \notin {Nil, ConditionFailed}

\* The execution contexts that hold a builder.
Cached == {e \in ExecCtx : wctx[e].msBuilder.loaded}

\* C16: of the contexts that loaded the execution at the same NextEventID and
\* added events, the one whose row update commits moves the row's NextEventID on;
\* from then on no row update of a context that still holds the old NextEventID
\* commits: it gets ConditionFailed, the context returns ErrConflict and drops
\* its builder, and its next load reads the winner's NextEventID.
ConcurrentUpdatesConflict ==
  \A e \in Cached : \A x \in updateWorkflowExecutionOutcomes(e) :
    LET calls == x.m.calls
        rows == RowUpdateCalls(calls)
    IN /\ (wctx[e].msBuilder.newEvents > 0 /\ \E i \in rows : calls[i].applied)
            => x.m.db.exec.NextEventID > db.exec.NextEventID
       /\ wctx[e].updateCondition # db.exec.NextEventID =>
            /\ \A i \in rows : ~calls[i].applied /\ calls[i].err # Nil
            /\ x.m.db.exec = db.exec
            /\ x.err # Nil
            /\ (\E i \in rows : calls[i].err = ConditionFailed) =>
                 /\ x.err = ErrConflict
                 /\ ~x.w.msBuilder.loaded
                 /\ Reloaded(x.w, x.m.db).msBuilder.NextEventID = db.exec.NextEventID
                 /\ Reloaded(x.w, x.m.db).updateCondition = db.exec.NextEventID

\* Two contexts loaded the execution at the same NextEventID and added events;
\* one has committed its update, and the other, still holding the old
\* NextEventID, runs its update into ConditionFailed.
LoserMeetsWinner ==
  \E a \in Cached : \E b \in Cached \ {a} :
    /\ wctx[a].updateCondition = db.exec.NextEventID
    /\ db.history[wctx[b].updateCondition].exists
    /\ wctx[b].msBuilder.newEvents > 0
    /\ wctx[b].updateCondition < db.exec.NextEventID
    /\ \E x \in updateWorkflowExecutionOutcomes(b) :
         /\ \E i \in RowUpdateCalls(x.m.calls) : x.m.calls[i].err = ConditionFailed
         /\ x.err = ErrConflict

\* C17: once a row update has moved the row's NextEventID past X, the history
\* batch at FirstEventID X is the one the committing transaction wrote and stays
\* it: no update of another context, whose row update cannot commit any more,
\* replaces it by its overwrite.
HistoryMatchesCommittedTransaction ==
  \A e \in Cached : \A x \in updateWorkflowExecutionOutcomes(e) :
    \A X \in DOMAIN db.history :
      (db.history[X].exists /\ db.exec.NextEventID > X)
        => x.m.db.history[X] = db.history[X]

\* The calls to the execution manager among the store calls of a handler run.
Attempts(calls) ==
  {i \in DOMAIN calls : calls[i].api \in {"CreateWorkflowExecution", "UpdateWorkflowExecution"}}

SentTimersClamped(request, m, ack) ==
  Attempts(m.calls) # {} =>
    \A i \in DOMAIN request.TimerTasks :
      /\ m.req.TimerTasks[i].ts =
           (IF request.TimerTasks[i].ts < ack THEN ack + 1 ELSE request.TimerTasks[i].ts)
      /\ m.req.TimerTasks[i].ts >= ack

\* C19: a timer task of a Create/Update request whose visibility timestamp is
\* before the shard's TimerAckLevel is sent with TimerAckLevel + 1 second, any
\* other keeps its timestamp, so no timer task reaches persistence with a
\* timestamp earlier than the TimerAckLevel.
TimersClampedToAckLevel ==
  \A c \in Callers :
    /\ \A request \in CreateRequests :
         \A f \in ExecFaults(c, TaskCount(request), TRUE) :
           SentTimersClamped(request,
             CreateWorkflowExecution(Machine(c), request, f[1], f[2], f[3]),
             ctx[c].shardInfo.TimerAckLevel)
    /\ \A request \in UpdateRequests :
         \A f \in ExecFaults(c, TaskCount(request), db.exec.exists) :
           SentTimersClamped(request,
             UpdateWorkflowExecution(Machine(c), request, f[1], f[2], f[3]),
             ctx[c].shardInfo.TimerAckLevel)

\* Renewal run m, started on context c, left the store and the context as a
\* successful renewal of RangeID old does.
RenewedFrom(c, m, old) ==
  /\ Len(m.calls) = 1
  /\ m.calls[1].api = "UpdateShard"
  /\ m.calls[1].stamp = old
  /\ m.calls[1].rowRangeID = old
  /\ m.db.shard.RangeID = old + 1
  /\ m.s.shardInfo.RangeID = old + 1
  /\ m.s.rangeID = old + 1
  /\ m.db.shard = m.s.shardInfo
  /\ m.s.transferSequenceNumber = Shl(old + 1, RangeSizeBits)
  /\ m.s.maxTransferSequenceNumber = Shl(old + 2, RangeSizeBits)
  /\ m.s.transferMaxReadLevel = m.s.transferSequenceNumber - 1
  /\ ~m.s.isClosed

\* C20: a renewal that succeeds has issued one UpdateShard that writes RangeID
\* old + 1 on the condition that the row holds old, and leaves
\* transferSequenceNumber = new << B, maxTransferSequenceNumber = (new + 1) << B,
\* transferMaxReadLevel = transferSequenceNumber - 1 and both the in-memory and
\* the atomic range id at new; an id then drawn is the first of the new range.
RenewalResetsSequencer ==
  \A c \in Callers :
    /\ \A isStealing \in BOOLEAN : \A fault \in ShardFaults :
         LET m == renewRangeLocked(Machine(c), isStealing, fault)
         IN m.err = Nil => RenewedFrom(c, m, ctx[c].shardInfo.RangeID)
    /\ \A m \in GetNextTransferTaskIDOutcomes(c) :
         (m.err = Nil /\ m.calls # <<>>) =>
           /\ m.calls[1].stamp = ctx[c].shardInfo.RangeID
           /\ m.s.rangeID = ctx[c].shardInfo.RangeID + 1
           /\ m.assigned[1].id = Shl(m.s.rangeID, RangeSizeBits)
           /\ m.s.maxTransferSequenceNumber = Shl(m.s.rangeID + 1, RangeSizeBits)

\* A context at the end of its range that still holds the shard draws an id:
\* the renewal runs and succeeds.
RenewalSucceedsAtRangeEnd ==
  \E c \in Callers :
    /\ RenewalDue(c, 1) /\ Fresh(c)
    /\ \E m \in GetNextTransferTaskIDOutcomes(c) :
         /\ m.err = Nil
         /\ Len(m.calls) = 1 /\ m.calls[1].api = "UpdateShard" /\ m.calls[1].applied
         /\ m.s.rangeID = ctx[c].rangeID + 1

\* C21: GetNextTransferTaskID hands out the counter's value while it is below
\* maxTransferSequenceNumber, so the ids of one range are consecutive; at the end
\* of the range it renews first and hands out the first id of the new range; the
\* id is always below maxTransferSequenceNumber; and when the renewal fails it
\* returns the error, hands out no id and leaves the counter where it was.
NextIDConsecutiveOrFirstOfNewRange ==
  \A c \in Callers : \A m \in GetNextTransferTaskIDOutcomes(c) :
    LET s == ctx[c]
        due == s.transferSequenceNumber >= s.maxTransferSequenceNumber
    IN /\ m.err = Nil =>
            /\ Len(m.assigned) = 1
            /\ m.assigned[1].id =
                 (IF due THEN Shl(s.shardInfo.RangeID + 1, RangeSizeBits)
                         ELSE s.transferSequenceNumber)
            /\ m.assigned[1].id < m.s.maxTransferSequenceNumber
            /\ m.s.transferSequenceNumber = m.assigned[1].id + 1
            /\ (m.calls = <<>>) <=> ~due
            /\ (~due /\ hist[c].lastID >= s.maxTransferSequenceNumber - 2 ^ RangeSizeBits)
                 => m.assigned[1].id = hist[c].lastID + 1
       /\ m.err # Nil =>
            /\ due
            /\ m.assigned = <<>>
            /\ m.s.transferSequenceNumber = s.transferSequenceNumber

\* A context has handed out the last id of its range: the next call renews and
\* returns the first id of the new range, or fails in the renewal.
NextIDCrossesRangeEnd ==
  \E c \in Callers :
    /\ hist[c].lastID = ctx[c].maxTransferSequenceNumber - 1
    /\ \E m \in GetNextTransferTaskIDOutcomes(c) :
         m.err = Nil /\ m.assigned[1].id = hist[c].lastID + 1
    /\ \E m \in GetNextTransferTaskIDOutcomes(c) : m.err # Nil

\* The handlers of context c that run under the shard lock from entry to return.
LockedOutcomes(c) ==
  GetNextTransferTaskIDOutcomes(c) \cup UpdateTransferAckLevelOutcomes(c)
    \cup UpdateTimerAckLevelOutcomes(c) \cup ExecutionOutcomes(c)

\* C22 as stated: one critical section of the shard lock spans at most one
\* persistence call.
OnePersistenceCallPerCriticalSection ==
  \A c \in Callers : \A m \in LockedOutcomes(c) : Len(m.calls) <= 1

\* C22 as amended: GetNextTransferTaskID and the ack-level updates make at most
\* one persistence call (an UpdateShard) under the lock; Create/Update make, under
\* one hold of the lock, the UpdateShard of each range renewal their id
\* assignment runs into (at most one per task), then at most one write to the
\* execution manager, then at most one more UpdateShard, the renewal after a
\* write whose error is of unknown kind.
CriticalSectionPersistenceCalls ==
  \A c \in Callers :
    /\ \A m \in LockedOutcomes(c) \ ExecutionOutcomes(c) :
         /\ Len(m.calls) <= 1
         /\ \A i \in DOMAIN m.calls : m.calls[i].api = "UpdateShard"
    /\ \A m \in ExecutionOutcomes(c) :
         LET attempts == Attempts(m.calls)
         IN /\ Cardinality(attempts) <= 1
            /\ \A i \in DOMAIN m.calls \ attempts : m.calls[i].api = "UpdateShard"
            /\ attempts = {} => Len(m.calls) <= TaskCount(m.req)
            /\ \A k \in attempts :
                 /\ k - 1 <= TaskCount(m.req)
                 /\ Len(m.calls) <= k + 1
                 /\ Len(m.calls) > k => UnknownKind(m.calls[k].api, m.calls[k].err)

\* One Create/Update makes three persistence calls under the lock: a renewal for
\* its ids, the write, and the renewal after the write's uncertain outcome.
ThreeCallsUnderOneLock ==
  \E c \in Callers : \E m \in ExecutionOutcomes(c) :
    /\ Len(m.calls) = 3
    /\ m.calls[1].api = "UpdateShard" /\ m.calls[1].err = Nil
    /\ 2 \in Attempts(m.calls)
    /\ m.calls[3].api = "UpdateShard"

\* The execution contexts whose decision handler can continue the run as new.
Continuing ==
  {e \in ExecCtx : wctx[e].msBuilder.loaded /\ wctx[e].msBuilder.NextEventID < MaxBuilderEventID}

\* The appends of the new run's first batch among the store calls of a run.
NewRunCalls(calls) == {i \in HistoryCalls(calls) : calls[i].Execution = NewRun}

\* C23: continue-as-new appends the new run's first batch, with TransactionID 0,
\* before anything else; the old run's append and row update follow only when
\* that append succeeded, and the row update carries the ContinueAsNew
\* sub-state; when the new run's append fails its error is returned and nothing
\* more is written; when the old run's update fails the new run's batch stays
\* in the store and the update's error is returned.
ContinueAsNewAppendsNewRunFirst ==
  \A e \in Continuing : \A x \in continueAsNewWorkflowExecutionOutcomes(e) :
    LET calls == x.m.calls
        first == NewRunCalls(calls)
        rest == DOMAIN calls \ first
    IN /\ \A i \in first : calls[i].TransactionID = 0 /\ calls[i].FirstEventID = 1
       /\ \A i \in first : \A j \in rest : i < j
       /\ rest # {} => first # {} /\ calls[SetMax(first)].err = Nil
       /\ RowUpdateCalls(calls) # {} => x.m.req.ContinueAsNew
       /\ (first # {} /\ calls[SetMax(first)].err # Nil) =>
            /\ x.err = calls[SetMax(first)].err
            /\ x.m.db.exec = db.exec /\ x.m.db.history = db.history
       /\ (rest # {} /\ x.err # Nil) =>
            /\ x.m.db.newRunHistory = [exists |-> TRUE, TransactionID |-> 0]
            /\ x.err = IF x.m.err = ConditionFailed THEN ErrConflict ELSE x.m.err
       /\ x.err = Nil =>
            /\ RowUpdateCalls(calls) # {}
            /\ x.m.db.newRunHistory.exists
            /\ x.m.db.exec.NextEventID = wctx[e].msBuilder.NextEventID + 1

\* A continue-as-new can go through, can fail in the new run's append, and can
\* fail in the old run's row update after the new run's batch was written, which
\* leaves that batch behind.
ContinueAsNewFailsInEachPhase ==
  \E e \in Continuing :
    /\ ~db.newRunHistory.exists
    /\ \E x \in continueAsNewWorkflowExecutionOutcomes(e) : x.err = Nil
    /\ \E x \in continueAsNewWorkflowExecutionOutcomes(e) :
         /\ x.err # Nil
         /\ NewRunCalls(x.m.calls) = DOMAIN x.m.calls /\ x.m.calls # <<>>
    /\ \E x \in continueAsNewWorkflowExecutionOutcomes(e) :
         /\ x.err # Nil
         /\ RowUpdateCalls(x.m.calls) # {}
         /\ x.m.db.newRunHistory.exists

\* The contexts an acquireShard call can build next.
Acquirers ==
  {c \in Ctx : ncalls < MaxCalls /\ ~Live(c) /\ \A b \in 1..(c - 1) : Live(b)}

\* The first id the context of acquireShard run m hands out, with the store calls
\* it takes.
FirstID(m) ==
  GetNextTransferTaskID([m EXCEPT !.calls = <<>>, !.assigned = <<>>], "none")

\* C24: acquireShard on a row with RangeID r reads the row and renews with the
\* host as Owner and isStealing set: when it succeeds the row holds RangeID
\* r + 1, the host as Owner and StolenSinceRenew one higher, with the ack levels
\* as they were, the context holds that row, and the first id it hands out is
\* (r + 1) << B, without another store call; when GetShard or the renewal fails
\* no context is returned, and the row is untouched unless the renewal's write
\* was applied and its answer lost.
AcquireRenewsAsStealing ==
  \A c \in Acquirers : \A m \in acquireShardOutcomes(c) :
    LET r == db.shard.RangeID
    IN /\ m.err = Nil =>
            /\ m.db.shard = [db.shard EXCEPT !.RangeID = r + 1,
                                             !.Owner = HostOf(c),
                                             !.StolenSinceRenew = @ + 1]
            /\ m.s.state = "live" /\ ~m.s.isClosed
            /\ m.s.shardInfo = m.db.shard /\ m.s.rangeID = r + 1
            /\ Len(m.calls) = 1 /\ m.calls[1].api = "UpdateShard" /\ m.calls[1].stamp = r
            /\ FirstID(m).err = Nil /\ FirstID(m).calls = <<>>
            /\ FirstID(m).assigned[1].id = Shl(r + 1, RangeSizeBits)
       /\ m.err # Nil =>
            /\ m.s = ctx[c]
            /\ m.db = db \/ (Len(m.calls) = 1 /\ m.calls[1].applied /\ m.err = Timeout)
            /\ m.calls = <<>> => m.db = db

\* A host acquires a shard that another context holds: the acquisition can
\* succeed, and it can fail in GetShard and in the renewal.
AcquireStealsHeldShard ==
  \E c \in Acquirers :
    /\ \E b \in LiveCtx : Fresh(b) /\ ~ctx[b].isClosed
    /\ db.shard.RangeID >= 1
    /\ \E m \in acquireShardOutcomes(c) : m.err = Nil /\ m.db.shard.Owner # db.shard.Owner
    /\ \E m \in acquireShardOutcomes(c) : m.err # Nil /\ m.calls = <<>>
    /\ \E m \in acquireShardOutcomes(c) : m.err # Nil /\ m.calls # <<>>

\* The UpdateShard calls of a handler run that the store applied.
AppliedShardUpdates(m) ==
  {i \in DOMAIN m.calls : m.calls[i].api = "UpdateShard" /\ m.calls[i].applied}

\* The handlers that only flush the ack levels.
AckLevelOutcomes(c) == UpdateTransferAckLevelOutcomes(c) \cup UpdateTimerAckLevelOutcomes(c)

\* C25: no handler lowers the shard row's RangeID: every UpdateShard the store
\* applies was conditioned on the RangeID the row held, each applied renewal
\* raises the row's RangeID by exactly one, and an ack-level update leaves it as
\* it was.
ShardRangeIDNeverDecreases ==
  /\ \A c \in Callers :
       /\ \A m \in SequencerOutcomes(c) \cup AckLevelOutcomes(c) :
            /\ \A i \in AppliedShardUpdates(m) : m.calls[i].stamp = m.calls[i].rowRangeID
            /\ m.db.shard.RangeID >= db.shard.RangeID
       /\ \A m \in SequencerOutcomes(c) :
            m.db.shard.RangeID = db.shard.RangeID + Cardinality(AppliedShardUpdates(m))
       /\ \A m \in AckLevelOutcomes(c) : m.db.shard.RangeID = db.shard.RangeID
       /\ \A m \in AppendHistoryEventsOutcomes(c) : m.db.shard = db.shard
  /\ \A c \in Acquirers : \A m \in acquireShardOutcomes(c) :
       /\ \A i \in AppliedShardUpdates(m) : m.calls[i].stamp = m.calls[i].rowRangeID
       /\ m.db.shard.RangeID = db.shard.RangeID + Cardinality(AppliedShardUpdates(m))

\* The row's RangeID has been raised twice; the context that holds it flushes an
\* ack level and renews, and a superseded context's shard-row update is refused.
ShardRowUpdatedUnderCurrentRange ==
  /\ db.shard.RangeID >= InitialRangeID + 2
  /\ \E c \in Callers :
       /\ Fresh(c)
       /\ \E m \in AckLevelOutcomes(c) : AppliedShardUpdates(m) # {} /\ m.db.shard # db.shard
       /\ \E m \in SequencerOutcomes(c) : AppliedShardUpdates(m) # {}
  /\ \E b \in Callers :
       /\ ~Fresh(b)
       /\ \E m \in AckLevelOutcomes(b) : m.calls # <<>> /\ AppliedShardUpdates(m) = {}

\* ------------------- the shard context, statement by statement (SpecLock)
\* The goroutines of one host on one shard context: the lockers run a range
\* renewal under s.Lock(), as GetNextTransferTaskID, CreateWorkflowExecution and
\* UpdateWorkflowExecution do, and the appenders run AppendHistoryEvents.

Lockers == 1..MaxLockers
Appenders == (MaxLockers + 1)..(MaxLockers + MaxAppenders)
\* The shard controller's goroutine that receives from the close channel.
Controller == 0

Goroutines == Lockers \cup Appenders \cup {Controller}

At(t, label) == pc[t].at = label

Goto(t, label) == pc' = [pc EXCEPT ![t].at = label]

InitLock ==
  /\ mu = 0
  /\ pc = [t \in Goroutines |-> [at |-> "idle", local |-> 0, seen |-> Unused]]
  /\ sc = [rangeID |-> InitialRangeID + 1,
           shardInfo |-> [RangeID |-> InitialRangeID + 1],
           isClosed |-> FALSE,
           renewed |-> InitialRangeID + 1]
  /\ shardRow = InitialRangeID + 1
  /\ appended = {}
  /\ db = InitialDB
  /\ ctx = [c \in Ctx |-> NoContext]
  /\ closeCh = <<>>
  /\ issued = [id \in TaskIDs |-> 0]
  /\ hist = [c \in Ctx |-> [lost |-> FALSE, uncertain |-> {}, lastID |-> -1]]
  /\ ncalls = 0
  /\ wctx = [e \in ExecCtx |-> NoExecutionContext]
  /\ IdleFrontend

\* s.Lock()
LockStep ==
  \E t \in Lockers :
    /\ At(t, "idle")
    /\ mu = 0
    /\ mu' = t
    /\ Goto(t, "renewRangeLocked")
    /\ UNCHANGED <<sc, shardRow, appended, shardVars, frontendVars>>

\* renewRangeLocked up to the answer of ShardManager.UpdateShard.
UpdateShardStep ==
  \E t \in Lockers :
    /\ At(t, "renewRangeLocked")
    /\ LET updatedShardInfo == [sc.shardInfo EXCEPT !.RangeID = @ + 1]
       IN IF shardRow # sc.shardInfo.RangeID
            THEN /\ pc' = [pc EXCEPT ![t].at = "closeShard"]
                 /\ UNCHANGED shardRow
            ELSE \E fault \in ShardFaults :
                   /\ updatedShardInfo.RangeID <= MaxRangeID + 1
                   /\ shardRow' = IF fault \in {"none", "TimeoutApplied"}
                                    THEN updatedShardInfo.RangeID ELSE shardRow
                   /\ pc' = [pc EXCEPT
                               ![t].at = IF fault = "none" THEN "storeRangeID" ELSE "Unlock",
                               ![t].local = updatedShardInfo.RangeID]
    /\ UNCHANGED <<mu, sc, appended, shardVars, frontendVars>>

\* atomic.StoreInt64(&s.rangeID, updatedShardInfo.RangeID)
StoreRangeIDStep ==
  \E t \in Lockers :
    /\ At(t, "storeRangeID")
    /\ sc' = [sc EXCEPT !.rangeID = pc[t].local]
    /\ Goto(t, "assignShardInfo")
    /\ UNCHANGED <<mu, shardRow, appended, shardVars, frontendVars>>

\* s.shardInfo = updatedShardInfo
AssignShardInfoStep ==
  \E t \in Lockers :
    /\ At(t, "assignShardInfo")
    /\ sc' = [sc EXCEPT !.shardInfo.RangeID = pc[t].local, !.renewed = pc[t].local]
    /\ Goto(t, "Unlock")
    /\ UNCHANGED <<mu, shardRow, appended, shardVars, frontendVars>>

\* closeShard without its atomic store.
CloseShardStep_NoStore ==
  \E t \in Lockers :
    /\ At(t, "closeShard")
    /\ IF sc.isClosed
         THEN /\ Goto(t, "Unlock")
              /\ UNCHANGED sc
         ELSE /\ sc' = [sc EXCEPT !.isClosed = TRUE, !.shardInfo.RangeID = ClosedRangeID]
              /\ Goto(t, "Unlock")
    /\ UNCHANGED <<mu, shardRow, appended, shardVars, frontendVars>>

\* closeShard without its test of isClosed.
CloseShardStep_NotIdempotent ==
  \E t \in Lockers :
    /\ At(t, "closeShard")
    /\ sc' = [sc EXCEPT !.isClosed = TRUE, !.shardInfo.RangeID = ClosedRangeID]
    /\ Goto(t, "storeClosedRangeID")
    /\ UNCHANGED <<mu, shardRow, appended, shardVars, frontendVars>>

\* closeShard up to s.shardInfo.RangeID = -1
CloseShardStep ==
  \E t \in Lockers :
    /\ At(t, "closeShard")
    /\ IF sc.isClosed
         THEN /\ Goto(t, "Unlock")
              /\ UNCHANGED sc
         ELSE /\ sc' = [sc EXCEPT !.isClosed = TRUE, !.shardInfo.RangeID = ClosedRangeID]
              /\ Goto(t, "storeClosedRangeID")
    /\ UNCHANGED <<mu, shardRow, appended, shardVars, frontendVars>>

\* atomic.StoreInt64(&s.rangeID, s.shardInfo.RangeID) of closeShard
StoreClosedRangeIDStep ==
  \E t \in Lockers :
    /\ At(t, "storeClosedRangeID")
    /\ sc' = [sc EXCEPT !.rangeID = sc.shardInfo.RangeID]
    /\ Goto(t, "closeCh <- shardID")
    /\ UNCHANGED <<mu, shardRow, appended, shardVars, frontendVars>>

\* s.closeCh <- s.shardID: the send completes when the controller receives.
SendCloseChStep ==
  \E t \in Lockers :
    /\ At(t, "closeCh <- shardID")
    /\ At(Controller, "idle")
    /\ closeCh' = Append(closeCh, "shardID")
    /\ pc' = [pc EXCEPT ![t].at = "Unlock", ![Controller].at = "unload"]
    /\ UNCHANGED <<mu, sc, shardRow, appended, frontendVars>>
    /\ UNCHANGED <<db, ctx, issued, hist, ncalls, wctx>>

\* The controller unloads the shard it received and receives again.
ControllerUnloadStep ==
  /\ At(Controller, "unload")
  /\ Goto(Controller, "idle")
  /\ UNCHANGED <<mu, sc, shardRow, appended, shardVars, frontendVars>>

\* the deferred s.Unlock()
UnlockStep ==
  \E t \in Lockers :
    /\ At(t, "Unlock")
    /\ mu' = 0
    /\ Goto(t, "idle")
    /\ UNCHANGED <<sc, shardRow, appended, shardVars, frontendVars>>

\* currentRangeID := atomic.LoadInt64(&s.rangeID); request.RangeID = currentRangeID
LoadRangeIDStep ==
  \E t \in Appenders :
    /\ At(t, "idle")
    /\ Cardinality(appended) < MaxAppends
    /\ pc' = [pc EXCEPT ![t] = [at |-> "historyMgr.AppendHistoryEvents",
                                local |-> sc.rangeID,
                                seen |-> [mu |-> mu, shardInfo |-> sc.shardInfo,
                                          renewed |-> sc.renewed, isClosed |-> sc.isClosed]]]
    /\ UNCHANGED <<mu, sc, shardRow, appended, shardVars, frontendVars>>

\* s.historyMgr.AppendHistoryEvents(request), and the overwrite after it
SendAppendStep ==
  \E t \in Appenders :
    /\ At(t, "historyMgr.AppendHistoryEvents")
    /\ appended' = appended \cup
         {[RangeID |-> pc[t].local, seen |-> pc[t].seen, mu |-> mu]}
    /\ pc' = [pc EXCEPT ![t] = [at |-> "idle", local |-> 0, seen |-> Unused]]
    /\ UNCHANGED <<mu, sc, shardRow, shardVars, frontendVars>>

\* Another host acquires the shard: its renewal raises the row's RangeID.
StealShardStep ==
  /\ shardRow <= MaxRangeID
  /\ shardRow' = shardRow + 1
  /\ UNCHANGED <<mu, pc, sc, appended, shardVars, frontendVars>>

NextLock ==
  \/ LockStep
  \/ UpdateShardStep
  \/ StoreRangeIDStep
  \/ AssignShardInfoStep
  \/ CloseShardStep
  \/ StoreClosedRangeIDStep
  \/ SendCloseChStep
  \/ ControllerUnloadStep
  \/ UnlockStep
  \/ LoadRangeIDStep
  \/ SendAppendStep
  \/ StealShardStep

SpecLock == InitLock /\ [][NextLock]_vars

\* The lockers and the controller alone, each goroutine running on.
NextClose ==
  \/ LockStep
  \/ UpdateShardStep
  \/ StoreRangeIDStep
  \/ AssignShardInfoStep
  \/ CloseShardStep
  \/ StoreClosedRangeIDStep
  \/ SendCloseChStep
  \/ ControllerUnloadStep
  \/ UnlockStep
  \/ StealShardStep

SpecClose ==
  /\ InitLock
  /\ [][NextClose]_vars
  /\ WF_vars(SendCloseChStep)
  /\ WF_vars(ControllerUnloadStep)
  /\ WF_vars(UnlockStep)

\* C26: AppendHistoryEvents takes no step on the mutex and is never held up by
\* it; the RangeID it stamps is the atomic range id it loaded, and whenever the
\* mutex is free that range id equals shardInfo.RangeID: the last range this
\* context renewed, or -1 once the context is closed.
AppendStampsAtomicRangeID ==
  /\ mu = 0 =>
       /\ sc.rangeID = sc.shardInfo.RangeID
       /\ sc.rangeID = IF sc.isClosed THEN ClosedRangeID ELSE sc.renewed
  /\ \A t \in Appenders :
       /\ mu # t
       /\ At(t, "idle") /\ Cardinality(appended) < MaxAppends => ENABLED LoadRangeIDStep
       /\ At(t, "historyMgr.AppendHistoryEvents") =>
            /\ ENABLED SendAppendStep
            /\ pc[t].seen.mu = 0 => pc[t].local = pc[t].seen.shardInfo.RangeID
  /\ \A a \in appended :
       /\ a.seen.mu = 0 =>
            a.RangeID = IF a.seen.isClosed THEN ClosedRangeID ELSE a.seen.renewed
       /\ a.RangeID \in {ClosedRangeID} \cup ((InitialRangeID + 1)..(MaxRangeID + 1))

\* An append loaded the range id and was sent while a locker held the mutex in
\* the middle of a renewal, and another was stamped -1 by a closed context.
AppendedWhileLockHeld ==
  /\ \E a \in appended :
       /\ a.seen.mu \in Lockers
       /\ a.mu \in Lockers
       /\ a.RangeID # a.seen.shardInfo.RangeID
  /\ \E a \in appended : a.seen.mu = 0 /\ a.RangeID = ClosedRangeID

\* The task ids a request carries, in the order the handler assigns them.
RequestIDs(request) ==
  request.TransferTasks \o request.ContinueAsNewTransferTasks
    \o [i \in DOMAIN request.TimerTasks |-> request.TimerTasks[i].id]

StrictlyIncreasing(ids) == \A i \in DOMAIN ids : \A j \in DOMAIN ids : i < j => ids[i] < ids[j]

\* C27: the ids a Create/Update hands out for one request are strictly
\* increasing, and a request that is sent carries them in the order transfer
\* tasks, ContinueAsNew transfer tasks, timer tasks: its ids are pairwise
\* distinct and are exactly the ids the sequencer handed out during the call.
RequestIDsAssignedInOrder ==
  \A c \in Callers : \A m \in ExecutionOutcomes(c) :
    LET ids == [i \in DOMAIN m.assigned |-> m.assigned[i].id]
    IN /\ StrictlyIncreasing(ids)
       /\ Attempts(m.calls) # {} =>
            /\ RequestIDs(m.req) = ids
            /\ StrictlyIncreasing(RequestIDs(m.req))

\* The range renewals that handler run m made after a store call of
\* Create/Update, that is, because the outcome of that write is unknown.
UncertainWriteRenewals(m) ==
  {i \in DOMAIN m.calls :
     /\ m.calls[i].api = "UpdateShard"
     /\ \E j \in Attempts(m.calls) : j < i}

InternalServiceError == "InternalServiceError"
BadRequest == "BadRequestError"
DomainAlreadyExists == "DomainAlreadyExistsError"
CancellationAlreadyRequested == "CancellationAlreadyRequestedError"

\* The error types WorkflowHandler.error has a case for, and the counter of each.
FailureCounterOf ==
  [t \in {InternalServiceError, BadRequest, ServiceBusy, EntityNotExists, AlreadyStarted,
          DomainAlreadyExists, CancellationAlreadyRequested} |->
     CASE t = InternalServiceError -> "CadenceFailures"
       [] t = BadRequest -> "CadenceErrBadRequestCounter"
       [] t = ServiceBusy -> "CadenceErrServiceBusyCounter"
       [] t = EntityNotExists -> "CadenceErrEntityNotExistsCounter"
       [] t = AlreadyStarted -> "CadenceErrExecutionAlreadyStartedCounter"
       [] t = DomainAlreadyExists -> "CadenceErrDomainAlreadyExistsCounter"
       [] t = CancellationAlreadyRequested -> "CadenceErrCancellationAlreadyRequestedCounter"]

FailureCounters == {FailureCounterOf[t] : t \in DOMAIN FailureCounterOf}

CounterNames == FailureCounters \cup {"CadenceRequests"}

Scopes == {"FrontendRegisterDomainScope", "FrontendStartWorkflowExecutionScope",
           "FrontendUpdateDomainScope", "FrontendDeprecateDomainScope"}

\* The errors a handler can meet: of the types with a case, and of others the
\* history, matching and persistence clients return. Message is the Message
\* field of a generated error and the text Error() gives for any other.
FrontendErrors ==
  [type : DOMAIN FailureCounterOf \cup {ShardOwnershipLost, ConditionFailed, Timeout},
   Message : {"a", "b"}]

\* The nil error.
NoError == [type |-> Nil, Message |-> ""]

\* err.Error()
Error(err) == err.Message

\* metricsClient.IncCounter(scope, counter)
IncCounter(cs, scope, counter) == [cs EXCEPT ![scope][counter] = @ + 1]

\* WorkflowHandler.error that wraps every error.
WorkflowHandlerError_WrapsAll(cs, err, scope) ==
  [counters |-> IncCounter(cs, scope, "CadenceFailures"),
   err |-> [type |-> InternalServiceError, Message |-> Error(err)]]

\* WorkflowHandler.error
WorkflowHandlerError(cs, err, scope) ==
  IF err.type \in DOMAIN FailureCounterOf
    THEN [counters |-> IncCounter(cs, scope, FailureCounterOf[err.type]), err |-> err]
    ELSE [counters |-> IncCounter(cs, scope, "CadenceFailures"),
          err |-> [type |-> InternalServiceError, Message |-> Error(err)]]

\* startRequestProfile
startRequestProfile(cs, scope) == IncCounter(cs, scope, "CadenceRequests")

Requests(cs) ==
  cs["FrontendRegisterDomainScope"]["CadenceRequests"]
    + cs["FrontendStartWorkflowExecutionScope"]["CadenceRequests"]
    + cs["FrontendUpdateDomainScope"]["CadenceRequests"]
    + cs["FrontendDeprecateDomainScope"]["CadenceRequests"]

errDomainNotSet == [type |-> BadRequest, Message |-> "Domain not set on request."]

\* return wh.error(err, scope): given is the error handed to wh.error.
ReturnError(cs, err, scope) ==
  [counters |-> WorkflowHandlerError(cs, err, scope).counters,
   err |-> WorkflowHandlerError(cs, err, scope).err,
   given |-> err]

\* The store errors a domain operation can meet: none, or one of FrontendErrors.
MetadataErrors == {NoError} \cup FrontendErrors

\* The store is asked for the domain only when the request names one, and asked
\* to update it only when it has returned the domain.
DomainCallsMade(nameSet, err0, err) ==
  /\ ~nameSet => err0 = NoError
  /\ err0 # NoError \/ ~nameSet => err = NoError

\* UpdateDomain on a request whose Name is set or not; err0 is what
\* metadataMgr.GetDomain returns and err what metadataMgr.UpdateDomain returns.
UpdateDomain(cs, nameSet, err0, err) ==
  LET scope == "FrontendUpdateDomainScope"
      cs1 == startRequestProfile(cs, scope)
  IN IF ~nameSet THEN ReturnError(cs1, errDomainNotSet, scope)
     ELSE IF err0 # NoError THEN ReturnError(cs1, err0, scope)
     ELSE IF err # NoError THEN ReturnError(cs1, err, scope)
     ELSE [counters |-> cs1, err |-> NoError, given |-> NoError]

DeprecateDomain(cs, nameSet, err0, err) ==
  LET scope == "FrontendDeprecateDomainScope"
      cs1 == startRequestProfile(cs, scope)
  IN IF ~nameSet THEN ReturnError(cs1, errDomainNotSet, scope)
     ELSE IF err0 # NoError THEN ReturnError(cs1, err0, scope)
     ELSE IF err # NoError THEN ReturnError(cs1, errDomainNotSet, scope)
     ELSE [counters |-> cs1, err |-> NoError, given |-> NoError]

InitFrontend ==
  /\ counters = [scope \in Scopes |-> [name \in CounterNames |-> 0]]
  /\ returned = [scope |-> "", given |-> NoError, err |-> NoError]
  /\ svc = Unused
  /\ db = InitialDB
  /\ ctx = [c \in Ctx |-> NoContext]
  /\ closeCh = <<>>
  /\ issued = [id \in TaskIDs |-> 0]
  /\ hist = [c \in Ctx |-> [lost |-> FALSE, uncertain |-> {}, lastID |-> -1]]
  /\ ncalls = 0
  /\ wctx = [e \in ExecCtx |-> NoExecutionContext]
  /\ IdleLock

\* A request that is served.
RequestServedStep ==
  \E scope \in Scopes :
    /\ Requests(counters) < MaxRequests
    /\ counters' = startRequestProfile(counters, scope)
    /\ returned' = [scope |-> scope, given |-> NoError, err |-> NoError]
    /\ UNCHANGED <<svc, shardVars, lockVars>>

\* A request that fails with err.
RequestFailedStep ==
  \E scope \in Scopes : \E err \in FrontendErrors :
    /\ Requests(counters) < MaxRequests
    /\ LET r == WorkflowHandlerError(startRequestProfile(counters, scope), err, scope)
       IN /\ counters' = r.counters
          /\ returned' = [scope |-> scope, given |-> err, err |-> r.err]
    /\ UNCHANGED <<svc, shardVars, lockVars>>

UpdateDomainStep ==
  \E nameSet \in BOOLEAN : \E err0 \in MetadataErrors : \E err \in MetadataErrors :
    /\ Requests(counters) < MaxRequests
    /\ DomainCallsMade(nameSet, err0, err)
    /\ LET r == UpdateDomain(counters, nameSet, err0, err)
       IN /\ counters' = r.counters
          /\ returned' = [scope |-> "FrontendUpdateDomainScope", given |-> r.given, err |-> r.err]
    /\ UNCHANGED <<svc, shardVars, lockVars>>

DeprecateDomainStep ==
  \E nameSet \in BOOLEAN : \E err0 \in MetadataErrors : \E err \in MetadataErrors :
    /\ Requests(counters) < MaxRequests
    /\ DomainCallsMade(nameSet, err0, err)
    /\ LET r == DeprecateDomain(counters, nameSet, err0, err)
       IN /\ counters' = r.counters
          /\ returned' = [scope |-> "FrontendDeprecateDomainScope", given |-> r.given, err |-> r.err]
    /\ UNCHANGED <<svc, shardVars, lockVars>>

NextFrontend ==
  \/ RequestServedStep
  \/ RequestFailedStep
  \/ UpdateDomainStep
  \/ DeprecateDomainStep

SpecFrontend == InitFrontend /\ [][NextFrontend]_vars

\* The counters of cs that are higher in cs1, and by how much in all.
Raised(cs, cs1) ==
  {p \in Scopes \X CounterNames : cs1[p[1]][p[2]] # cs[p[1]][p[2]]}

\* C29: WorkflowHandler.error returns an error of the seven types it has a case
\* for as it was given, and for any other an InternalServiceError whose Message
\* is the text of the given error; each call raises exactly one counter, a
\* failure counter of the request's scope, by one: the type's own counter, and
\* CadenceFailures for InternalServiceError and for the converted errors.
ErrorMappingSurfacesKnownTypes ==
  /\ \A scope \in Scopes : \A err \in FrontendErrors :
       LET r == WorkflowHandlerError(counters, err, scope)
           known == err.type \in {BadRequest, ServiceBusy, EntityNotExists, AlreadyStarted,
                                  DomainAlreadyExists, CancellationAlreadyRequested,
                                  InternalServiceError}
           counter == IF known THEN FailureCounterOf[err.type] ELSE "CadenceFailures"
       IN /\ known => r.err = err
          /\ ~known => r.err = [type |-> InternalServiceError, Message |-> err.Message]
          /\ Raised(counters, r.counters) = {<<scope, counter>>}
          /\ counter \in FailureCounters
          /\ r.counters[scope][counter] = counters[scope][counter] + 1
          /\ (counter = "CadenceFailures") <=> (err.type = InternalServiceError \/ ~known)
  /\ \A scope \in Scopes :
       LET failures == [name \in FailureCounters |-> counters[scope][name]]
       IN /\ \A name \in FailureCounters : failures[name] <= counters[scope]["CadenceRequests"]
          /\ returned.scope = scope /\ returned.err # NoError =>
               /\ \E name \in FailureCounters : failures[name] > 0
               /\ returned.err.type \in DOMAIN FailureCounterOf

\* The handler has just converted an error of a type it has no case for, after
\* returning a BadRequestError unchanged in the same scope.
ErrorConvertedAndSurfaced ==
  /\ returned.err # NoError
  /\ returned.given.type \notin DOMAIN FailureCounterOf
  /\ returned.err = [type |-> InternalServiceError, Message |-> returned.given.Message]
  /\ counters[returned.scope]["CadenceFailures"] = 1
  /\ counters[returned.scope]["CadenceErrBadRequestCounter"] = 1
  /\ counters[returned.scope]["CadenceRequests"] = 2

\* C30: a Create/Update request reaches the execution manager only with every
\* timer task carrying an id the sequencer handed out during the call; when an
\* id assignment fails the handler returns the error and makes no call to the
\* execution manager.
TimerIDsAssignedBeforeSend ==
  \A c \in Callers : \A m \in ExecutionOutcomes(c) :
    /\ Attempts(m.calls) # {} =>
         \A i \in DOMAIN m.req.TimerTasks : m.req.TimerTasks[i].id \in AssignedIDs(m)
    /\ Len(m.assigned) < TaskCount(m.req) => Attempts(m.calls) = {} /\ m.err # Nil

\* C31: every error of updateWorkflowExecution and of
\* continueAsNewWorkflowExecution leaves the context without a cached
\* mutable-state builder.
ErrorsInvalidateBuilder ==
  /\ \A e \in Loaded : \A x \in updateWorkflowExecutionOutcomes(e) :
       x.err # Nil => ~x.w.msBuilder.loaded
  /\ \A e \in Continuing : \A x \in continueAsNewWorkflowExecutionOutcomes(e) :
       x.err # Nil => ~x.w.msBuilder.loaded

Reader == MaxLockers + MaxAppenders + 1

InitSeq ==
  /\ mu = 0
  /\ pc = [t \in Lockers \cup {Reader} |->
             [at |-> "idle", local |-> 0, seen |-> [ids |-> {}, left |-> 0]]]
  /\ sc = [shardInfo |-> [RangeID |-> InitialRangeID + 1],
           isClosed |-> FALSE,
           transferSequenceNumber |-> Shl(InitialRangeID + 1, RangeSizeBits),
           maxTransferSequenceNumber |-> Shl(InitialRangeID + 2, RangeSizeBits),
           transferMaxReadLevel |-> Shl(InitialRangeID + 1, RangeSizeBits) - 1]
  /\ shardRow = InitialRangeID + 1
  /\ appended = {}
  /\ db = InitialDB
  /\ ctx = [c \in Ctx |-> NoContext]
  /\ closeCh = <<>>
  /\ issued = [id \in TaskIDs |-> 0]
  /\ hist = [c \in Ctx |-> [lost |-> FALSE, uncertain |-> {}, lastID |-> -1]]
  /\ ncalls = 0
  /\ wctx = [e \in ExecCtx |-> NoExecutionContext]
  /\ IdleFrontend

\* closeShard on the context record s; ch is the close channel.
closeShardSeq(s, row, ch, err) ==
  IF s.isClosed THEN [s |-> s, ch |-> ch, err |-> err, row |-> row]
  ELSE [s |-> [s EXCEPT !.isClosed = TRUE, !.shardInfo.RangeID = ClosedRangeID],
        ch |-> Append(ch, "shardID"), err |-> err, row |-> row]

\* renewRangeLocked on the context record s against the row's RangeID.
renewRangeSeq(s, row, ch, fault) ==
  LET updatedRangeID == s.shardInfo.RangeID + 1
  IN IF row # s.shardInfo.RangeID
       THEN closeShardSeq(s, row, ch, ShardOwnershipLost)
     ELSE IF fault # "none"
       THEN [s |-> s, ch |-> ch, err |-> fault,
             row |-> IF fault = "TimeoutApplied" THEN updatedRangeID ELSE row]
     ELSE [s |-> [s EXCEPT !.transferSequenceNumber = Shl(updatedRangeID, RangeSizeBits),
                           !.maxTransferSequenceNumber = Shl(updatedRangeID + 1, RangeSizeBits),
                           !.transferMaxReadLevel = Shl(updatedRangeID, RangeSizeBits) - 1,
                           !.shardInfo.RangeID = updatedRangeID],
           ch |-> ch, err |-> Nil, row |-> updatedRangeID]

\* s.Lock() of UpdateWorkflowExecution, on a request of n transfer tasks
LockUpdateStep ==
  \E t \in Lockers : \E n \in 0..MaxTasks :
    /\ At(t, "idle")
    /\ mu = 0
    /\ mu' = t
    /\ pc' = [pc EXCEPT ![t] = [at |-> "getNextTransferTaskIDLocked", local |-> 0,
                                seen |-> [ids |-> {}, left |-> n]]]
    /\ UNCHANGED <<sc, shardRow, appended, shardVars, frontendVars>>

\* One turn of the assignment loops: getNextTransferTaskIDLocked, SetTaskID and
\* transferMaxReadLevel = id; after the last, the deferred call is registered.
AssignTransferTaskIDStep ==
  \E t \in Lockers : \E fault \in ShardFaults :
    /\ At(t, "getNextTransferTaskIDLocked")
    /\ IF pc[t].seen.left = 0
         THEN /\ Goto(t, "executionManager.UpdateWorkflowExecution")
              /\ UNCHANGED <<sc, shardRow, closeCh>>
         ELSE LET due == sc.transferSequenceNumber >= sc.maxTransferSequenceNumber
                  r == IF due THEN renewRangeSeq(sc, shardRow, closeCh, fault)
                       ELSE [s |-> sc, ch |-> closeCh, err |-> Nil, row |-> shardRow]
                  id == r.s.transferSequenceNumber
              IN /\ due \/ fault = "none"
                 /\ r.row <= MaxRangeID + 1
                 /\ shardRow' = r.row
                 /\ closeCh' = r.ch
                 /\ IF r.err # Nil
                      THEN /\ sc' = r.s
                           /\ pc' = [pc EXCEPT ![t].at = "Unlock", ![t].seen.ids = {}]
                      ELSE /\ sc' = [r.s EXCEPT !.transferSequenceNumber = @ + 1]
                           /\ pc' = [pc EXCEPT ![t].local = id,
                                               ![t].seen.ids = @ \cup {id},
                                               ![t].seen.left = @ - 1]
    /\ UNCHANGED <<mu, appended, frontendVars>>
    /\ UNCHANGED <<db, ctx, issued, hist, ncalls, wctx>>

\* Update_Loop: the call to the execution manager returns; after an error of
\* unknown kind the range is renewed, and the shard closed if that fails.
ExecutionWriteStep ==
  \E t \in Lockers : \E answer \in {"returned", "unknown"} : \E fault \in ShardFaults :
    /\ At(t, "executionManager.UpdateWorkflowExecution")
    /\ LET r == IF shardRow # sc.shardInfo.RangeID
                  THEN closeShardSeq(sc, shardRow, closeCh, ShardOwnershipLost)
                ELSE IF answer = "returned"
                  THEN [s |-> sc, ch |-> closeCh, err |-> Nil, row |-> shardRow]
                ELSE renewRangeSeq(sc, shardRow, closeCh, fault)
           closed == IF r.err \notin {Nil, ShardOwnershipLost}
                       THEN closeShardSeq(r.s, r.row, r.ch, r.err) ELSE r
       IN /\ answer = "unknown" \/ fault = "none"
          /\ r.row <= MaxRangeID + 1
          /\ shardRow' = r.row
          /\ sc' = closed.s
          /\ closeCh' = closed.ch
    /\ Goto(t, "updateMaxReadLevelLocked")
    /\ UNCHANGED <<mu, appended, frontendVars>>
    /\ UNCHANGED <<db, ctx, issued, hist, ncalls, wctx>>

\* the deferred s.updateMaxReadLevelLocked(transferMaxReadLevel)
UpdateMaxReadLevelStep ==
  \E t \in Lockers :
    /\ At(t, "updateMaxReadLevelLocked")
    /\ sc' = IF pc[t].local > sc.transferMaxReadLevel
               THEN [sc EXCEPT !.transferMaxReadLevel = pc[t].local] ELSE sc
    /\ pc' = [pc EXCEPT ![t].at = "Unlock", ![t].seen.ids = {}]
    /\ UNCHANGED <<mu, shardRow, appended, shardVars, frontendVars>>

\* GetTransferMaxReadLevel that reads the field without the read lock.
GetTransferMaxReadLevelStep_NoRLock ==
  /\ pc[Reader].local # sc.transferMaxReadLevel
  /\ pc' = [pc EXCEPT ![Reader].local = sc.transferMaxReadLevel]
  /\ UNCHANGED <<mu, sc, shardRow, appended, shardVars, frontendVars>>

\* GetTransferMaxReadLevel: s.RLock(); return s.transferMaxReadLevel
GetTransferMaxReadLevelStep ==
  /\ mu = 0
  /\ pc[Reader].local # sc.transferMaxReadLevel
  /\ pc' = [pc EXCEPT ![Reader].local = sc.transferMaxReadLevel]
  /\ UNCHANGED <<mu, sc, shardRow, appended, shardVars, frontendVars>>

NextSeq ==
  \/ LockUpdateStep
  \/ AssignTransferTaskIDStep
  \/ ExecutionWriteStep
  \/ UpdateMaxReadLevelStep
  \/ UnlockStep
  \/ GetTransferMaxReadLevelStep
  \/ StealShardStep

SpecSeq == InitSeq /\ [][NextSeq]_vars

\* The transfer task ids of the requests whose call to the execution manager
\* has not returned.
InFlight == UNION {pc[t].seen.ids : t \in Lockers}

\* C34: whenever the shard lock is free transferMaxReadLevel <
\* transferSequenceNumber <= maxTransferSequenceNumber; transferMaxReadLevel
\* never decreases; and no transfer task id at or below transferMaxReadLevel, or
\* at or below a level the queue reader got from GetTransferMaxReadLevel,
\* belongs to a request whose persistence call has yet to return.
ReadLevelCoversOnlyReturnedWrites ==
  /\ [](mu = 0 => /\ sc.transferMaxReadLevel < sc.transferSequenceNumber
                  /\ sc.transferSequenceNumber <= sc.maxTransferSequenceNumber
                  /\ \A id \in InFlight : id > sc.transferMaxReadLevel)
  /\ [][sc'.transferMaxReadLevel >= sc.transferMaxReadLevel]_vars
  /\ [](\A id \in InFlight : id > pc[Reader].local)

\* The reader holds a level that a renewal set, and a request with two ids, the
\* first of the old range, is at its persistence call.
ReaderBehindWriteInFlight ==
  /\ pc[Reader].local >= Shl(InitialRangeID + 1, RangeSizeBits)
  /\ \E t \in Lockers :
       /\ At(t, "executionManager.UpdateWorkflowExecution")
       /\ Cardinality(pc[t].seen.ids) = 2
       /\ sc.transferMaxReadLevel \in pc[t].seen.ids

\* What renewRangeLocked does to context c from the current state, over both
\* values of isStealing and every answer of the shard manager.
renewRangeLockedOutcomes(c) ==
  {renewRangeLocked(Machine(c), isStealing, fault) :
     isStealing \in BOOLEAN, fault \in ShardFaults}

\* C35: a range renewal whose UpdateShard fails leaves transferSequenceNumber,
\* maxTransferSequenceNumber, transferMaxReadLevel, Owner, the ack levels and
\* StolenSinceRenew of the context as they were; its RangeID stays as it was,
\* except that after ShardOwnershipLost it is -1.
FailedRenewalKeepsSequencer ==
  \A c \in Ctx : ctx[c].state # "none" =>
    \A m \in renewRangeLockedOutcomes(c) :
      m.err # Nil =>
        /\ m.s.transferSequenceNumber = ctx[c].transferSequenceNumber
        /\ m.s.maxTransferSequenceNumber = ctx[c].maxTransferSequenceNumber
        /\ m.s.transferMaxReadLevel = ctx[c].transferMaxReadLevel
        /\ m.s.shardInfo.Owner = ctx[c].shardInfo.Owner
        /\ m.s.shardInfo.TransferAckLevel = ctx[c].shardInfo.TransferAckLevel
        /\ m.s.shardInfo.TimerAckLevel = ctx[c].shardInfo.TimerAckLevel
        /\ m.s.shardInfo.StolenSinceRenew = ctx[c].shardInfo.StolenSinceRenew
        /\ m.s.shardInfo.RangeID =
             IF m.err = ShardOwnershipLost THEN ClosedRangeID ELSE ctx[c].shardInfo.RangeID

\* A context that is open, has acknowledged tasks and has lost the row: its
\* renewal fails with ShardOwnershipLost; and one whose renewal times out though
\* the row took the update.
RenewalFailsOnOpenContext ==
  /\ \E c \in Ctx :
       /\ ctx[c].state # "none" /\ ~ctx[c].isClosed
       /\ ctx[c].shardInfo.TransferAckLevel > 0
       /\ renewRangeLocked(Machine(c), FALSE, "none").err = ShardOwnershipLost
  /\ \E c \in Ctx :
       /\ ctx[c].state # "none"
       /\ LET m == renewRangeLocked(Machine(c), TRUE, "TimeoutApplied")
          IN m.err \notin {Nil, ShardOwnershipLost} /\ m.db # db

\* C36: when UpdateTransferAckLevel or UpdateTimerAckLevel returns an error, the
\* context's ack levels and StolenSinceRenew are those it had before the call.
FailedAckUpdateKeepsAckLevel ==
  \A c \in Callers : \A m \in AckLevelOutcomes(c) :
    m.err # Nil =>
      /\ m.s.shardInfo.TransferAckLevel = ctx[c].shardInfo.TransferAckLevel
      /\ m.s.shardInfo.TimerAckLevel = ctx[c].shardInfo.TimerAckLevel
      /\ m.s.shardInfo.StolenSinceRenew = ctx[c].shardInfo.StolenSinceRenew

\* ---------- updates of one cached execution context, with and without a timer
\* task to delete (SpecDelete)

updateWorkflowExecutionWithDeleteTaskOutcomes(e) ==
  UNION {{updateWorkflowExecutionWithDeleteTask(wctx[e], Machine(ShardOf(e)), NewTasks(n), <<>>,
                                                deleteTimerTask, transactionID, f) :
            deleteTimerTask \in 1..MaxDeleteTimerTaskID,
            transactionID \in 1..MaxTransactionID, f \in UpdateFaults(e, n)} :
         n \in 0..1}

updateWorkflowExecutionWithContextOutcomes(e) ==
  UNION {{updateWorkflowExecutionWithContext(wctx[e], Machine(ShardOf(e)), "context",
                                             NewTasks(n), <<>>, transactionID, f) :
            transactionID \in 1..MaxTransactionID, f \in UpdateFaults(e, n)} :
         n \in 0..1}

\* The timer queue processor persists a fired timer and deletes its task.
UpdateWithDeleteTaskStep ==
  \E e \in ExecCtx :
    /\ ncalls < MaxCalls
    /\ wctx[e].msBuilder.loaded
    /\ \E x \in updateWorkflowExecutionWithDeleteTaskOutcomes(e) :
         /\ Commit(ShardOf(e), x.m)
         /\ wctx' = [wctx EXCEPT ![e] = x.w]
    /\ ncalls' = ncalls + 1
    /\ UNCHANGED <<lockVars, frontendVars>>

NextDelete ==
  \/ LoadWorkflowExecutionStep
  \/ AddEventStep
  \/ UpdateWorkflowExecutionContextStep
  \/ UpdateWithDeleteTaskStep

SpecDelete == InitExec /\ [][NextDelete]_vars

\* The update reached the shard's UpdateWorkflowExecution.
SentUpdate(x) ==
  \E i \in DOMAIN x.m.calls : x.m.calls[i].api = "UpdateWorkflowExecution"

\* C37: a request sent by updateWorkflowExecution or by
\* updateWorkflowExecutionWithContext carries no timer task to delete, whatever
\* updates, failures and reloads the cached context has been through.
DeleteTimerTaskSentOnce ==
  \A e \in Loaded :
    \A x \in updateWorkflowExecutionOutcomes(e) \cup updateWorkflowExecutionWithContextOutcomes(e) :
      SentUpdate(x) => x.m.req.DeleteTimerTask = 0

\* ------------------ the services' Start and Stop, goroutine by goroutine
\* (SpecLifecycle).  pc[g].at is where goroutine g stands; pc[g].err is what a
\* returned Start returned.

\* The goroutines that call the frontend handler: an RPC entry point, which
\* begins with startRequestProfile, and Health.
Requesters == {"RPC", "Health"}

LifecycleGoroutines ==
  {"Service.Start", "Service.Stop", "WorkflowHandler.Start"} \cup Requesters

\* NewService and NewWorkflowHandler have run: stopC is made, unbuffered, and
\* startWG.Add(1) is done.
InitLifecycle ==
  /\ pc = [g \in LifecycleGoroutines |->
             [at |-> IF g = "WorkflowHandler.Start" THEN "Register"
                     ELSE IF g = "Service.Start" THEN "handler.Start" ELSE "idle",
              err |-> Nil]]
  /\ svc = [startWG |-> 1, history |-> FALSE, matching |-> FALSE,
            metricsClient |-> FALSE, baseStopped |-> FALSE]
  /\ counters = Unused
  /\ returned = Unused
  /\ mu = 0
  /\ sc = Unused
  /\ shardRow = 0
  /\ appended = {}
  /\ db = InitialDB
  /\ ctx = [c \in Ctx |-> NoContext]
  /\ closeCh = <<>>
  /\ issued = [id \in TaskIDs |-> 0]
  /\ hist = [c \in Ctx |-> [lost |-> FALSE, uncertain |-> {}, lastID |-> -1]]
  /\ ncalls = 0
  /\ wctx = [e \in ExecCtx |-> NoExecutionContext]

LifecycleFrame == UNCHANGED <<counters, returned, mu, sc, shardRow, appended, shardVars>>

\* Service.Start up to and including handler.Start(): it now waits on stopC.
ServiceStartStep ==
  /\ At("Service.Start", "handler.Start")
  /\ Goto("Service.Start", "<-s.stopC")
  /\ UNCHANGED svc
  /\ LifecycleFrame

\* Somebody calls Service.Stop.
ServiceStopCallStep ==
  /\ At("Service.Stop", "idle")
  /\ Goto("Service.Stop", "select")
  /\ UNCHANGED svc
  /\ LifecycleFrame

\* case s.stopC <- struct{}{}: the send on the unbuffered channel can proceed
\* only while Start is at its receive.
StopSendStep ==
  /\ At("Service.Stop", "select")
  /\ At("Service.Start", "<-s.stopC")
  /\ pc' = [pc EXCEPT !["Service.Stop"].at = "returned",
                      !["Service.Start"].at = "base.Stop"]
  /\ UNCHANGED svc
  /\ LifecycleFrame

\* default: no receiver is waiting.
StopDefaultStep ==
  /\ At("Service.Stop", "select")
  /\ ~At("Service.Start", "<-s.stopC")
  /\ Goto("Service.Stop", "returned")
  /\ UNCHANGED svc
  /\ LifecycleFrame

\* base.Stop(), and Start returns
BaseStopStep ==
  /\ At("Service.Start", "base.Stop")
  /\ Goto("Service.Start", "returned")
  /\ svc' = [svc EXCEPT !.baseStopped = TRUE]
  /\ LifecycleFrame

\* WorkflowHandler.Start registers with the dispatcher and starts the service:
\* from here on requests arrive.
RegisterStep ==
  /\ At("WorkflowHandler.Start", "Register")
  /\ Goto("WorkflowHandler.Start", "NewHistoryClient")
  /\ UNCHANGED svc
  /\ LifecycleFrame

\* wh.history, err = NewHistoryClient(); if err != nil { return err }
NewHistoryClientStep ==
  \E err \in {Nil, InternalServiceError} :
    /\ At("WorkflowHandler.Start", "NewHistoryClient")
    /\ IF err = Nil
         THEN /\ svc' = [svc EXCEPT !.history = TRUE]
              /\ Goto("WorkflowHandler.Start", "NewMatchingClient")
         ELSE /\ pc' = [pc EXCEPT !["WorkflowHandler.Start"] = [at |-> "returned", err |-> err]]
              /\ UNCHANGED svc
    /\ LifecycleFrame

\* wh.matching, err = NewMatchingClient(); if err != nil { return err }
NewMatchingClientStep ==
  \E err \in {Nil, InternalServiceError} :
    /\ At("WorkflowHandler.Start", "NewMatchingClient")
    /\ IF err = Nil
         THEN /\ svc' = [svc EXCEPT !.matching = TRUE]
              /\ Goto("WorkflowHandler.Start", "startWG.Done")
         ELSE /\ pc' = [pc EXCEPT !["WorkflowHandler.Start"] = [at |-> "returned", err |-> err]]
              /\ UNCHANGED svc
    /\ LifecycleFrame

\* wh.metricsClient = ...; wh.startWG.Done(); return nil
StartWGDoneStep ==
  /\ At("WorkflowHandler.Start", "startWG.Done")
  /\ svc' = [svc EXCEPT !.metricsClient = TRUE, !.startWG = @ - 1]
  /\ Goto("WorkflowHandler.Start", "returned")
  /\ LifecycleFrame

\* The dispatcher hands a request to the handler: it calls wh.startWG.Wait().
RequestArrivesStep ==
  \E r \in Requesters :
    /\ At(r, "idle")
    /\ ~At("WorkflowHandler.Start", "Register")
    /\ Goto(r, "startWG.Wait")
    /\ UNCHANGED svc
    /\ LifecycleFrame

\* wh.startWG.Wait() returns once the counter is zero.
WaitReturnsStep ==
  \E r \in Requesters :
    /\ At(r, "startWG.Wait")
    /\ svc.startWG = 0
    /\ Goto(r, "serving")
    /\ UNCHANGED svc
    /\ LifecycleFrame

\* The request is served and its goroutine ends.
RequestReturnsStep ==
  \E r \in Requesters :
    /\ At(r, "serving")
    /\ Goto(r, "returned")
    /\ UNCHANGED svc
    /\ LifecycleFrame

NextLifecycle ==
  \/ ServiceStartStep
  \/ ServiceStopCallStep
  \/ StopSendStep
  \/ StopDefaultStep
  \/ BaseStopStep
  \/ RegisterStep
  \/ NewHistoryClientStep
  \/ NewMatchingClientStep
  \/ StartWGDoneStep
  \/ RequestArrivesStep
  \/ WaitReturnsStep
  \/ RequestReturnsStep

\* Every goroutine that can take its next step takes it; when Stop is called and
\* when requests arrive is up to the callers.
SpecLifecycle ==
  /\ InitLifecycle
  /\ [][NextLifecycle]_vars
  /\ WF_vars(ServiceStartStep)
  /\ WF_vars(StopSendStep)
  /\ WF_vars(StopDefaultStep)
  /\ WF_vars(BaseStopStep)
  /\ WF_vars(RegisterStep)
  /\ WF_vars(NewHistoryClientStep)
  /\ WF_vars(NewMatchingClientStep)
  /\ WF_vars(StartWGDoneStep)
  /\ WF_vars(WaitReturnsStep)
  /\ WF_vars(RequestReturnsStep)

\* C38: once Service.Stop has been called, Service.Start eventually returns,
\* base.Stop having run, whether Stop is called before or after Start has
\* reached its receive from the stop channel.
StopEndsStart ==
  ~At("Service.Stop", "idle")
    ~> (At("Service.Start", "returned") /\ svc.baseStopped)

\* C39: a request is served only when Start has registered the dispatcher and
\* set both clients; and once Start has returned, with an error or without, every
\* request blocked in startWG.Wait eventually proceeds.
RequestsWaitForStart ==
  /\ [](\A r \in Requesters :
          At(r, "serving") => /\ svc.history /\ svc.matching /\ svc.metricsClient
                              /\ ~At("WorkflowHandler.Start", "Register"))
  /\ \A r \in Requesters :
       (At("WorkflowHandler.Start", "returned") /\ At(r, "startWG.Wait"))
         ~> At(r, "serving")

\* C40: when the UpdateDomain call of the metadata store fails, DeprecateDomain
\* returns what the handler's error function makes of that error, as UpdateDomain
\* does.
DeprecateDomainSurfacesStoreError ==
  \A err \in FrontendErrors :
    /\ DeprecateDomain(counters, TRUE, NoError, err).err
         = WorkflowHandlerError(counters, err, "FrontendDeprecateDomainScope").err
    /\ DeprecateDomain(counters, TRUE, NoError, err).err
         = UpdateDomain(counters, TRUE, NoError, err).err

====
